---- MODULE Spec2Model ----
(***************************************************************************)
(* Rule engine of schengen-days: the day-index codec, the trip normalizer, *)
(* the 180-day window evaluator and the forward simulators, followed by    *)
(* the status display of the page.  The simulators are also given loop     *)
(* test by loop test, and the normalizers also on objects behind           *)
(* references.                                                             *)
(*                                                                         *)
(* Two variants of the engine live in the repository.  src/unnamed/part_002*)
(* works on 'YYYY-MM-DD' strings and integer day indexes; src/app.js (and  *)
(* src/unnamed/part_001) works on Date objects.  Both are modelled.  Where *)
(* the two files use the same function name, the app.js one carries the    *)
(* suffix App.                                                             *)
(*                                                                         *)
(* A date string is the record [fmt, y, mo, d]: fmt says whether the text  *)
(* matches /^\d{4}-\d{2}-\d{2}$/, and y, mo, d are the three numbers.      *)
(* A Date object is the record [nan, t]: t is its local calendar day       *)
(* number (whole-day granularity, a time zone without clock changes), and  *)
(* nan marks an Invalid Date.  An absent value (null) is <<>> and a        *)
(* present one is <<v>>.                                                   *)
(*                                                                         *)
(* input, call, arg and result hold one call of an engine function: the    *)
(* trip list passed in, the function called, its other argument and what   *)
(* it returned.                                                            *)
(***************************************************************************)
EXTENDS Integers, Sequences, FiniteSets, TLC

VARIABLES input, call, arg, result, dom, frame, heap,
          trips, editingIndex, pendingDeletedTrip, timers, storage, form,
          env, history

\* The page's own state: the module-level variables of the script (trips,
\* editingIndex, pendingDeletedTrip, and whether undoTimer is armed), the
\* localStorage item, the date inputs of the form, and the
\* browser the script runs in (env: the script loaded, and zone, the whole
\* days toISOString falls behind local midnight: 1 east of UTC, else 0).
\* history is not program state: it remembers the lists the last
\* deleteTrip found (until another handler changes trips) and the trip
\* setEditMode loaded into the form.
page ==
  <<trips, editingIndex, pendingDeletedTrip, timers, storage, form, env,
    history>>

vars == <<input, call, arg, result, dom, frame, heap, page>>

\* The state the engine's functions do not touch: the page's elements
\* (dom), the local variables of a simulator loop in progress (frame), the
\* trip objects and arrays of a run that follows references (heap) and the
\* page's own state.
rest == <<dom, frame, heap, page>>

null == <<>>

Str(y, mo, d) == [fmt |-> TRUE, y |-> y, mo |-> mo, d |-> d]

NotADate == [fmt |-> FALSE, y |-> 0, mo |-> 0, d |-> 0]

\* The page as loaded: no status class on the badge, the ring and the bar,
\* no message.
DomInit ==
  [statusBadge |-> {}, statusBadgeText |-> "", globeRing |-> {},
   progressBar |-> {}, nextSafeMessage |-> [text |-> ""],
   nextSafeBlock |-> {}, nextSafeStatusLine |-> "", nextSafe |-> null]

\* The script as first evaluated: let trips = [], editingIndex = null,
\* pendingDeletedTrip = null, no timer, nothing stored, empty date inputs.
NoTimers == [undoTimer |-> FALSE]

\* localStorage without the item.
NoItem == [kind |-> "absent", items |-> <<>>]

\* Nothing remembered: no delete to undo, no trip loaded for editing.
NoHistory == [deleted |-> null, loaded |-> null]

PageInit ==
  /\ trips = <<>>
  /\ editingIndex = null
  /\ pendingDeletedTrip = null
  /\ timers = NoTimers
  /\ storage = NoItem
  /\ form = [entryDate |-> NotADate, exitDate |-> NotADate]
  /\ env = [script |-> "none", zone |-> 0]
  /\ history = NoHistory

\* No loop running, no heap, the page untouched.
RestInit ==
  /\ dom = DomInit
  /\ frame = [pc |-> "idle"]
  /\ heap = null
  /\ PageInit

Some(v) == <<v>>

Val(o) == o[1]

Max(a, b) == IF a >= b THEN a ELSE b

Min(a, b) == IF a <= b THEN a ELSE b

(***************************************************************************)
(* ECMAScript Date.UTC(y, m0, d) / DAY_MS: the day number of the civil     *)
(* date, month m0 counted from 0.  A day past the end of the month rolls   *)
(* over into the next one, and years 0..99 mean 1900..1999.  The steps are *)
(* the usual days-from-civil computation on a year that starts in March.   *)
(***************************************************************************)
DayOfYoe(era, yoe, doy) ==
  era * 146097 + yoe * 365 + yoe \div 4 - yoe \div 100 + doy - 719468

DayOfShifted(yy, mp, d) ==
  DayOfYoe(yy \div 400, yy % 400, (153 * mp + 2) \div 5 + d - 1)

DayOfCivil(yr, m, d) ==
  DayOfShifted(IF m <= 2 THEN yr - 1 ELSE yr, IF m > 2 THEN m - 3 ELSE m + 9, d)

DateUTC(y, m0, d) ==
  DayOfCivil(IF y >= 0 /\ y <= 99 THEN 1900 + y ELSE y, m0 + 1, d)

(***************************************************************************)
(* new Date(i * DAY_MS): the UTC calendar fields of day number i.          *)
(***************************************************************************)
FieldsOfMp(era, yoe, doy, mp) ==
  [y  |-> yoe + era * 400 + (IF mp >= 10 THEN 1 ELSE 0),
   mo |-> IF mp < 10 THEN mp + 3 ELSE mp - 9,
   d  |-> doy - (153 * mp + 2) \div 5 + 1]

FieldsOfDoy(era, yoe, doy) == FieldsOfMp(era, yoe, doy, (5 * doy + 2) \div 153)

FieldsOfYoe(era, doe, yoe) ==
  FieldsOfDoy(era, yoe, doe - (365 * yoe + yoe \div 4 - yoe \div 100))

FieldsOfDoe(era, doe) ==
  FieldsOfYoe(era, doe,
              (doe - doe \div 1460 + doe \div 36524 - doe \div 146096) \div 365)

UTCFields(i) ==
  FieldsOfDoe((i + 719468) \div 146097, (i + 719468) % 146097)

\* Mutant of parseYMD: the round trip through Date.UTC left out.
parseYMDNoRoundTrip(ymd) ==
  IF ~ymd.fmt THEN null
  ELSE IF ymd.mo < 1 \/ ymd.mo > 12 \/ ymd.d < 1 \/ ymd.d > 31 THEN null
  ELSE Some([y |-> ymd.y, mo |-> ymd.mo, d |-> ymd.d])

parseYMD(ymd) ==
  IF ~ymd.fmt THEN null
  ELSE IF ymd.mo < 1 \/ ymd.mo > 12 \/ ymd.d < 1 \/ ymd.d > 31 THEN null
  ELSE IF UTCFields(DateUTC(ymd.y, ymd.mo - 1, ymd.d))
            # [y |-> ymd.y, mo |-> ymd.mo, d |-> ymd.d] THEN null
  ELSE Some([y |-> ymd.y, mo |-> ymd.mo, d |-> ymd.d])

\* Mutant of DayIndexOfParsed: the month passed on without the - 1.
DayIndexOfParsedMonthOff(p) ==
  IF p = null THEN null ELSE Some(DateUTC(Val(p).y, Val(p).mo, Val(p).d))

\* toDayIndex, lines 28-29, on the value p that parseYMD returned.
DayIndexOfParsed(p) ==
  IF p = null THEN null ELSE Some(DateUTC(Val(p).y, Val(p).mo - 1, Val(p).d))

toDayIndex(ymd) == DayIndexOfParsed(parseYMD(ymd))

\* toISOString().slice(0, 10) of the fields.
FieldsToString(f) == Str(f.y, f.mo, f.d)

\* Mutant of fromDayIndex: the fields of the day before (a local-time
\* reading of a UTC midnight west of Greenwich).
fromDayIndexDayBefore(i) == FieldsToString(UTCFields(i - 1))

fromDayIndex(i) == FieldsToString(UTCFields(i))

addDays(dayIndex, n) == dayIndex + n

diffDaysInclusive(startIndex, endIndex) ==
  IF endIndex < startIndex THEN 0 ELSE endIndex - startIndex + 1

(***************************************************************************)
(* Array.prototype.sort((x, y) => x.entry - y.entry) on records whose      *)
(* entry is a number: a stable sort, ascending by entry.                   *)
(***************************************************************************)
RECURSIVE InsertByEntry(_, _)
InsertByEntry(s, x) ==
  IF s = <<>> THEN <<x>>
  ELSE IF s[Len(s)].entry <= x.entry THEN Append(s, x)
  ELSE Append(InsertByEntry(SubSeq(s, 1, Len(s) - 1), x), s[Len(s)])

\* Mutant of SortByEntry: the sort left out.
SortByEntryUnsorted(s) == s

RECURSIVE SortByEntry(_)
SortByEntry(s) ==
  IF s = <<>> THEN <<>>
  ELSE InsertByEntry(SortByEntry(SubSeq(s, 1, Len(s) - 1)), s[Len(s)])

(***************************************************************************)
(* part_002 normalizeTrips, lines 58-63: decode each pair, skip a pair     *)
(* with an unparseable end, swap a reversed pair.  IndexPair is lines      *)
(* 61-62 on the two decoded ends a and b.                                  *)
(***************************************************************************)
IndexPair(a, b) ==
  IF a = null \/ b = null THEN <<>>
  ELSE IF Val(a) <= Val(b)
       THEN <<[entry |-> Val(a), exit |-> Val(b)]>>
       ELSE <<[entry |-> Val(b), exit |-> Val(a)]>>

IndexOne(t) == IndexPair(toDayIndex(t.entry), toDayIndex(t.exit))

\* Mutant of IndexTrips: an unparseable pair aborts the batch.
IndexTripsAbort(list) ==
  IF \E k \in 1..Len(list) : IndexOne(list[k]) = <<>> THEN <<>>
  ELSE [k \in 1..Len(list) |-> IndexOne(list[k])[1]]

RECURSIVE IndexTrips(_)
IndexTrips(list) ==
  IF list = <<>> THEN <<>>
  ELSE IndexTrips(SubSeq(list, 1, Len(list) - 1)) \o IndexOne(list[Len(list)])

(***************************************************************************)
(* One step of the merge loop (part_002 lines 70-76): prev is the last     *)
(* interval of merged; curr either extends it or is pushed.                *)
(***************************************************************************)
\* Mutant of MergeInto: only overlapping intervals merge, touching ones
\* do not.
MergeIntoOverlapOnly(merged, prev, curr) ==
  IF curr.entry <= prev.exit
  THEN IF curr.exit > prev.exit
       THEN [merged EXCEPT ![Len(merged)].exit = curr.exit]
       ELSE merged
  ELSE Append(merged, curr)

MergeInto(merged, prev, curr) ==
  IF curr.entry <= prev.exit + 1
  THEN IF curr.exit > prev.exit
       THEN [merged EXCEPT ![Len(merged)].exit = curr.exit]
       ELSE merged
  ELSE Append(merged, curr)

\* Mutant of MergeStep: a merge always takes the exit of curr.
MergeStepOverwrite(merged, curr) ==
  IF curr.entry <= merged[Len(merged)].exit + 1
  THEN [merged EXCEPT ![Len(merged)].exit = curr.exit]
  ELSE Append(merged, curr)

MergeStep(merged, curr) == MergeInto(merged, merged[Len(merged)], curr)

RECURSIVE MergeLoop(_, _, _)
MergeLoop(merged, indexed, i) ==
  IF i > Len(indexed) THEN merged
  ELSE MergeLoop(MergeStep(merged, indexed[i]), indexed, i + 1)

\* Lines 66-77: the empty case and the merge of the sorted list.
MergeSorted(indexed) ==
  IF indexed = <<>> THEN <<>> ELSE MergeLoop(<<indexed[1]>>, indexed, 2)

\* Line 79: the merged intervals written back as date strings.
FormatMerged(merged) ==
  [k \in 1..Len(merged) |->
     [entry |-> fromDayIndex(merged[k].entry),
      exit  |-> fromDayIndex(merged[k].exit)]]

normalizeTrips(list) == FormatMerged(MergeSorted(SortByEntry(IndexTrips(list))))

(***************************************************************************)
(* part_002 computeUsedDays: the normalized trips clipped to the window    *)
(* [asOf - 179, asOf], lengths summed.                                     *)
(***************************************************************************)
UsedOfPair(s, e, windowStart, windowEnd) ==
  IF s = null \/ e = null THEN 0
  ELSE diffDaysInclusive(Max(Val(s), windowStart), Min(Val(e), windowEnd))

UsedOne(t, windowStart, windowEnd) ==
  UsedOfPair(toDayIndex(t.entry), toDayIndex(t.exit), windowStart, windowEnd)

RECURSIVE UsedLoop(_, _, _, _)
UsedLoop(normalized, k, windowStart, windowEnd) ==
  IF k > Len(normalized) THEN 0
  ELSE UsedOne(normalized[k], windowStart, windowEnd)
       + UsedLoop(normalized, k + 1, windowStart, windowEnd)

\* Mutant of computeUsedDays: the raw trips summed without normalizing.
computeUsedDaysRaw(asOfDayIndex, sourceTrips) ==
  UsedLoop(sourceTrips, 1, asOfDayIndex - 179, asOfDayIndex)

computeUsedDays(asOfDayIndex, sourceTrips) ==
  UsedLoop(normalizeTrips(sourceTrips), 1, asOfDayIndex - 179, asOfDayIndex)

\* Mutant of computeRemaining: the difference without the floor at 0.
computeRemainingUnfloored(asOfDayIndex, sourceTrips) ==
  90 - computeUsedDays(asOfDayIndex, sourceTrips)

computeRemaining(asOfDayIndex, sourceTrips) ==
  Max(0, 90 - computeUsedDays(asOfDayIndex, sourceTrips))

\* Mutant of EntryPossible: >= 0 in the place of > 0.
EntryPossibleNonNegative(d, sourceTrips) ==
  computeRemaining(d, sourceTrips) >= 0

\* The test of getNextPossibleEntry on the day d.
EntryPossible(d, sourceTrips) == computeRemaining(d, sourceTrips) > 0

\* The for loop of getNextPossibleEntry: the value of i when the loop ends,
\* which is the first i under 730 whose day d = asOfDayIndex + i passes the
\* test, and 730 when none does.
NextPossibleLoop(asOfDayIndex, sourceTrips) ==
  CHOOSE i \in 0..730 :
    /\ i = 730 \/ EntryPossible(addDays(asOfDayIndex, i), sourceTrips)
    /\ \A k \in 0..(i - 1) :
         ~EntryPossible(addDays(asOfDayIndex, k), sourceTrips)

\* Mutant of NextPossibleAt: the loop's last d returned after the loop.
NextPossibleAtLast(asOfDayIndex, i) == addDays(asOfDayIndex, i)

\* What getNextPossibleEntry returns when the loop ends with this i: d from
\* inside the loop, asOfDayIndex after it.
NextPossibleAt(asOfDayIndex, i) ==
  IF i < 730 THEN addDays(asOfDayIndex, i) ELSE asOfDayIndex

getNextPossibleEntry(asOfDayIndex, sourceTrips) ==
  NextPossibleAt(asOfDayIndex, NextPossibleLoop(asOfDayIndex, sourceTrips))

(***************************************************************************)
(* src/app.js: the engine on Date objects.                                 *)
(***************************************************************************)
DateOf(n) == [nan |-> FALSE, t |-> n]

InvalidDate == [nan |-> TRUE, t |-> 0]

IsDate(x) == "t" \in DOMAIN x

\* new Date(s + "T00:00:00"): local midnight of a date string that names a
\* real calendar day, Invalid Date otherwise.
DateParse(s) ==
  IF ~s.fmt \/ s.mo < 1 \/ s.mo > 12 \/ s.d < 1 \/ s.d > 31 THEN InvalidDate
  ELSE IF UTCFields(DateUTC(s.y, s.mo - 1, s.d)) # [y |-> s.y, mo |-> s.mo, d |-> s.d]
  THEN InvalidDate
  ELSE DateOf(DateUTC(s.y, s.mo - 1, s.d))

\* Relational operators on Dates compare their time values; a comparison
\* with NaN is false.
DateLe(a, b) == ~a.nan /\ ~b.nan /\ a.t <= b.t

DateLt(a, b) == ~a.nan /\ ~b.nan /\ a.t < b.t

toDay(dateStrOrDate) ==
  IF IsDate(dateStrOrDate) THEN dateStrOrDate ELSE DateParse(dateStrOrDate)

\* new Date(d.getTime() + n * dayMs) on the Date d.
Shift(d, n) == [nan |-> d.nan, t |-> d.t + n]

addDaysApp(date, n) == Shift(toDay(date), n)

DayCount(A, B) == IF B < A THEN 0 ELSE (B - A) + 1

daysInclusive(a, b) == DayCount(toDay(a).t, toDay(b).t)

ClampPair(a, b) ==
  [entry |-> IF DateLe(a, b) THEN a ELSE b,
   exit  |-> IF DateLe(a, b) THEN b ELSE a]

clampTrip(trip) == ClampPair(toDay(trip.entry), toDay(trip.exit))

\* list.map(clampTrip)
ClampAll(list) == [k \in 1..Len(list) |-> clampTrip(list[k])]

\* .sort((a, b) => a.entry - b.entry) on Dates: stable, ascending by time
\* value (a NaN difference compares as equal).
RECURSIVE InsertByDate(_, _)
InsertByDate(s, x) ==
  IF s = <<>> THEN <<x>>
  ELSE IF ~DateLt(x.entry, s[Len(s)].entry) THEN Append(s, x)
  ELSE Append(InsertByDate(SubSeq(s, 1, Len(s) - 1), x), s[Len(s)])

RECURSIVE SortByDate(_)
SortByDate(s) ==
  IF s = <<>> THEN <<>>
  ELSE InsertByDate(SortByDate(SubSeq(s, 1, Len(s) - 1)), s[Len(s)])

\* Mutant of MergeIntoApp: the exit of the interval being built overwritten
\* by every trip merged into it.
MergeIntoAppOverwrite(merged, prev, curr) ==
  IF DateLe(curr.entry, addDaysApp(prev.exit, 1))
  THEN [merged EXCEPT ![Len(merged)].exit = curr.exit]
  ELSE Append(merged, curr)

MergeIntoApp(merged, prev, curr) ==
  IF DateLe(curr.entry, addDaysApp(prev.exit, 1))
  THEN IF DateLt(prev.exit, curr.exit)
       THEN [merged EXCEPT ![Len(merged)].exit = curr.exit]
       ELSE merged
  ELSE Append(merged, curr)

MergeStepApp(merged, curr) == MergeIntoApp(merged, merged[Len(merged)], curr)

RECURSIVE MergeLoopApp(_, _, _)
MergeLoopApp(merged, prepared, i) ==
  IF i > Len(prepared) THEN merged
  ELSE MergeLoopApp(MergeStepApp(merged, prepared[i]), prepared, i + 1)

MergePrepared(prepared) ==
  IF prepared = <<>> THEN <<>> ELSE MergeLoopApp(<<prepared[1]>>, prepared, 2)

normalizeTripsApp(list) == MergePrepared(SortByDate(ClampAll(list)))

WindowEndingAt(end) == [start |-> addDaysApp(end, -179), end |-> end]

window180(refDate) == WindowEndingAt(toDay(refDate))

ClippedDays(start, end) ==
  IF DateLt(end, start) THEN 0 ELSE daysInclusive(start, end)

overlapDaysInclusive(aStart, aEnd, bStart, bEnd) ==
  ClippedDays(IF DateLt(bStart, aStart) THEN aStart ELSE bStart,
              IF DateLt(aEnd, bEnd) THEN aEnd ELSE bEnd)

\* normalizeTrips(t).reduce((sum, tr) => sum + overlap(w, tr), 0)
RECURSIVE SumOverlap(_, _, _)
SumOverlap(w, norm, k) ==
  IF k > Len(norm) THEN 0
  ELSE overlapDaysInclusive(w.start, w.end, norm[k].entry, norm[k].exit)
       + SumOverlap(w, norm, k + 1)

daysUsedLast180(refDate, t) ==
  SumOverlap(window180(refDate), normalizeTripsApp(t), 1)

remainingLast180(refDate, t) == Max(0, 90 - daysUsedLast180(refDate, t))

\* Mutant of StayBreaks: the candidate stay's own days left out.
StayBreaksExistingOnly(entry, current, w, t) ==
  daysUsedLast180(current, t) > 90

\* Mutant of StayBreaks: the sum compared with the window's 180 days.
StayBreaksAgainstWindow(entry, current, w, t) ==
  daysUsedLast180(current, t)
    + overlapDaysInclusive(w.start, w.end, entry, current) > 180

\* Lines 119-122 of maxStayDays on the day current: whether the loop breaks.
StayBreaks(entry, current, w, t) ==
  daysUsedLast180(current, t)
    + overlapDaysInclusive(w.start, w.end, entry, current) > 90

\* Whether the loop body breaks in the iteration with this value of days.
BreaksAt(entry, t, days) ==
  StayBreaks(entry, addDaysApp(entry, days), window180(addDaysApp(entry, days)), t)

\* The for loop of maxStayDays (lines 117-123): the value of days when the
\* loop ends, which is the first value under 366 at which the body breaks,
\* and 366 when it never does.
MaxStayLoop(entry, t) ==
  CHOOSE days \in 0..366 :
    /\ days = 366 \/ BreaksAt(entry, t, days)
    /\ \A k \in 0..(days - 1) : ~BreaksAt(entry, t, k)

maxStayDays(entryDate, t) ==
  Max(0, MaxStayLoop(toDay(entryDate), t) - 1)

\* Mutant of ExitAfter: no stay possible answered with the entry day.
ExitAfterSentinel(entryDate, maxDays) ==
  IF maxDays <= 0 THEN Some(toDay(entryDate))
  ELSE Some(addDaysApp(entryDate, maxDays - 1))

\* Line 129 of latestExit on the value maxDays.
ExitAfter(entryDate, maxDays) ==
  IF maxDays <= 0 THEN null ELSE Some(addDaysApp(entryDate, maxDays - 1))

latestExit(entryDate, t) == ExitAfter(entryDate, maxStayDays(entryDate, t))

\* The test of nextSafeEntryDate on the day d.
SafeOn(d, t) == remainingLast180(d, t) > 0

\* The for loop of nextSafeEntryDate: the value of i when the loop ends.
NextSafeLoop(start, t) ==
  CHOOSE i \in 0..730 :
    /\ i = 730 \/ SafeOn(addDaysApp(start, i), t)
    /\ \A k \in 0..(i - 1) : ~SafeOn(addDaysApp(start, k), t)

\* What nextSafeEntryDate returns when the loop ends with this i.
NextSafeAt(startDate, i) ==
  IF i < 730 THEN addDaysApp(startDate, i) ELSE toDay(startDate)

nextSafeEntryDate(startDate, t) ==
  NextSafeAt(startDate, NextSafeLoop(toDay(startDate), t))

(***************************************************************************)
(* The two normalizers on objects and arrays that are passed by reference. *)
(* A heap H has H.obj, the trip objects ({entry, exit}) by reference       *)
(* number, and H.arr, the arrays by array number, each a sequence of       *)
(* references.  Dates, strings and numbers are values: no engine function  *)
(* changes a Date in place.                                                *)
(***************************************************************************)
\* The array a read as a list of trip records.
Deref(H, a) == [k \in 1..Len(H.arr[a]) |-> H.obj[H.arr[a][k]]]

\* A new array of new objects with these values (push of object literals,
\* or map to object literals); it is the last array of the result.
AllocArray(H, values) ==
  [obj |-> H.obj \o values,
   arr |-> Append(H.arr, [k \in 1..Len(values) |-> Len(H.obj) + k])]

\* The objects of array a with the reference of each next to its fields.
Tagged(H, a) ==
  [k \in 1..Len(H.arr[a]) |->
     [entry |-> H.obj[H.arr[a][k]].entry, ref |-> H.arr[a][k]]]

RefsOf(tagged) == [k \in 1..Len(tagged) |-> tagged[k].ref]

\* part_002 lines 57-63: indexed, a new array of new objects.
IndexedOnHeap(H, a) == AllocArray(H, IndexTrips(Deref(H, a)))

\* part_002 line 65: indexed (the last array) sorted in place.
SortedOnHeap(H) ==
  [H EXCEPT !.arr[Len(H.arr)] = RefsOf(SortByEntry(Tagged(H, Len(H.arr))))]

\* part_002 lines 72-76: prev.exit is written through the reference prev,
\* or curr is pushed on the array m.
MergeIntoHeap(H, m, prev, curr) ==
  IF H.obj[curr].entry <= H.obj[prev].exit + 1
  THEN IF H.obj[curr].exit > H.obj[prev].exit
       THEN [H EXCEPT !.obj[prev].exit = H.obj[curr].exit]
       ELSE H
  ELSE [H EXCEPT !.arr[m] = Append(@, curr)]

RECURSIVE MergeLoopHeap(_, _, _, _)
MergeLoopHeap(H, m, p, i) ==
  IF i > Len(H.arr[p]) THEN H
  ELSE MergeLoopHeap(MergeIntoHeap(H, m, H.arr[m][Len(H.arr[m])], H.arr[p][i]),
                     m, p, i + 1)

\* part_002 line 79: the merged array mapped to a new array of new objects.
FormattedOnHeap(H) == AllocArray(H, FormatMerged(Deref(H, Len(H.arr))))

\* part_002 lines 66-79 with indexed the last array p of H: a new empty
\* array, or merged = [indexed[0]], the loop and the map.
MergedOnHeap(H, p) ==
  IF H.arr[p] = <<>> THEN AllocArray(H, <<>>)
  ELSE FormattedOnHeap(
         MergeLoopHeap([H EXCEPT !.arr = Append(@, <<H.arr[p][1]>>)],
                       p + 1, p, 2))

\* part_002 normalizeTrips on the array a: the heap it leaves, whose last
\* array is the one returned.
normalizeTripsHeap(H, a) ==
  MergedOnHeap(SortedOnHeap(IndexedOnHeap(H, a)), Len(H.arr) + 1)

\* Mutant of PreparedOnHeap: clampTrip writes the two Dates into the trip
\* it is given and returns that trip.
PreparedInPlace(H, a) ==
  [obj |-> [r \in 1..Len(H.obj) |->
              IF \E k \in 1..Len(H.arr[a]) : H.arr[a][k] = r
              THEN clampTrip(H.obj[r]) ELSE H.obj[r]],
   arr |-> Append(H.arr, H.arr[a])]

\* app.js line 58, list.map(clampTrip): a new array of new objects.
PreparedOnHeap(H, a) == AllocArray(H, ClampAll(Deref(H, a)))

\* app.js line 58, .sort(...): prepared (the last array) sorted in place.
SortedOnHeapApp(H) ==
  [H EXCEPT !.arr[Len(H.arr)] = RefsOf(SortByDate(Tagged(H, Len(H.arr))))]

\* app.js lines 64-68.
MergeIntoHeapApp(H, m, prev, curr) ==
  IF DateLe(H.obj[curr].entry, addDaysApp(H.obj[prev].exit, 1))
  THEN IF DateLt(H.obj[prev].exit, H.obj[curr].exit)
       THEN [H EXCEPT !.obj[prev].exit = H.obj[curr].exit]
       ELSE H
  ELSE [H EXCEPT !.arr[m] = Append(@, curr)]

RECURSIVE MergeLoopHeapApp(_, _, _, _)
MergeLoopHeapApp(H, m, p, i) ==
  IF i > Len(H.arr[p]) THEN H
  ELSE MergeLoopHeapApp(
         MergeIntoHeapApp(H, m, H.arr[m][Len(H.arr[m])], H.arr[p][i]),
         m, p, i + 1)

\* app.js lines 59-70 with prepared the last array p of H.
MergedOnHeapApp(H, p) ==
  IF H.arr[p] = <<>> THEN AllocArray(H, <<>>)
  ELSE MergeLoopHeapApp([H EXCEPT !.arr = Append(@, <<H.arr[p][1]>>)],
                        p + 1, p, 2)

\* app.js normalizeTrips on the array a.
normalizeTripsAppHeap(H, a) ==
  MergedOnHeapApp(SortedOnHeapApp(PreparedOnHeap(H, a)), Len(H.arr) + 1)

\* What the caller still holds after a call: its list (array 1) and the n
\* trip objects it made; the rest is the callee's.
CallerView(H, n) == [obj |-> SubSeq(H.obj, 1, n), arr |-> <<H.arr[1]>>]

(***************************************************************************)
(* src/app.js: the status shown on the page.  An element's classList is a  *)
(* set of class names; the text of nextSafe is kept as the date it shows.  *)
(***************************************************************************)
\* Mutant of getStatus: the warning tier from 80 used days on.
getStatusWarnAt80(usedDays) ==
  IF usedDays >= 90 THEN "overstay"
  ELSE IF usedDays >= 80 THEN "warning"
  ELSE "safe"

getStatus(usedDays) ==
  IF usedDays >= 90 THEN "overstay"
  ELSE IF usedDays >= 60 THEN "warning"
  ELSE "safe"

BadgeClass(status) ==
  IF status = "safe" THEN "b-ok"
  ELSE IF status = "warning" THEN "b-warn"
  ELSE "b-bad"

BadgeText(status) ==
  IF status = "safe" THEN "Safe"
  ELSE IF status = "warning" THEN "Warning"
  ELSE "Overstay"

StatusClass(status) ==
  IF status = "safe" THEN "status-safe"
  ELSE IF status = "warning" THEN "status-warning"
  ELSE "status-overstay"

StatusClasses == {"status-safe", "status-warning", "status-overstay"}

\* setStatusStyles on the page d with the status already computed.
StyledAs(d, status) ==
  [d EXCEPT
     !.statusBadge = (@ \ {"b-ok", "b-warn", "b-bad"}) \cup {BadgeClass(status)},
     !.statusBadgeText = BadgeText(status),
     !.globeRing = (@ \ StatusClasses) \cup {StatusClass(status)},
     !.progressBar = (@ \ StatusClasses) \cup {StatusClass(status)}]

setStatusStyles(d, used) == StyledAs(d, getStatus(used))

\* updateNextSafe on the page d.
updateNextSafe(d, used, rem, now, t) ==
  IF used > 90
  THEN [d EXCEPT !.nextSafeMessage = [text |-> "Overstay by", n |-> used - 90],
                 !.nextSafeBlock = @ \ {"hide"},
                 !.nextSafeStatusLine = "Earliest compliant date:",
                 !.nextSafe = Some(nextSafeEntryDate(now, t))]
  ELSE IF rem > 0
  THEN [d EXCEPT !.nextSafeMessage = [text |-> "You can enter now."],
                 !.nextSafeBlock = @ \cup {"hide"}]
  ELSE [d EXCEPT !.nextSafeMessage = [text |-> "No days left right now."],
                 !.nextSafeBlock = @ \ {"hide"},
                 !.nextSafeStatusLine = "Next safe entry date:",
                 !.nextSafe = Some(nextSafeEntryDate(now, t))]

\* The status part of render, lines 344-357, on the list t already
\* normalized and the day now.
RenderStatus(d, t, now) ==
  updateNextSafe(setStatusStyles(d, daysUsedLast180(now, t)),
                 daysUsedLast180(now, t), remainingLast180(now, t), now, t)

(***************************************************************************)
(* Reference calendar, independent of the codec above: used only to state  *)
(* the properties.                                                         *)
(***************************************************************************)
LeapYear(y) == (y % 4 = 0 /\ y % 100 # 0) \/ y % 400 = 0

DaysIn(y, mo) ==
  IF mo = 2 THEN (IF LeapYear(y) THEN 29 ELSE 28)
  ELSE IF mo \in {4, 6, 9, 11} THEN 30 ELSE 31

IsRealDate(s) == s.fmt /\ s.mo \in 1..12 /\ s.d \in 1..DaysIn(s.y, s.mo)

CalLt(a, b) ==
  \/ a.y < b.y
  \/ a.y = b.y /\ a.mo < b.mo
  \/ a.y = b.y /\ a.mo = b.mo /\ a.d < b.d

CalLe(a, b) == ~CalLt(b, a)

NextDay(s) ==
  IF s.d < DaysIn(s.y, s.mo) THEN Str(s.y, s.mo, s.d + 1)
  ELSE IF s.mo < 12 THEN Str(s.y, s.mo + 1, 1)
  ELSE Str(s.y + 1, 1, 1)

(***************************************************************************)
(* Inputs of the normalizer runs.  The dates sit around a year end: two    *)
(* consecutive days, one free day, one more day.  Three pairs have an end  *)
(* that does not parse.                                                    *)
(***************************************************************************)
MaxTrips == 3

NormDates == {Str(2025, 12, 31), Str(2026, 1, 1), Str(2026, 1, 3)}

BadPairs ==
  { [entry |-> Str(2026, 2, 30), exit |-> Str(2026, 1, 1)],
    [entry |-> Str(2025, 12, 31), exit |-> NotADate],
    [entry |-> Str(2026, 13, 1), exit |-> Str(2026, 1, 0)] }

RawPairs == [entry : NormDates, exit : NormDates] \cup BadPairs

ListsOver(pairs, n) == UNION {[1..k -> pairs] : k \in 0..n}

\* The calendar days the normalizer's inputs and outputs can name.
Universe ==
  {Str(2025, 12, d) : d \in 29..31} \cup {Str(2026, 1, d) : d \in 1..5}

Init ==
  /\ input \in ListsOver(RawPairs, MaxTrips)
  /\ call = "none"
  /\ arg = null
  /\ result = null
  /\ RestInit

\* app.js is handed date strings the form and the store have produced:
\* every end names a real day.
AppInput(list) ==
  \A k \in 1..Len(list) : ~toDay(list[k].entry).nan /\ ~toDay(list[k].exit).nan

NormalizeTrips ==
  /\ call = "none"
  /\ call' = "normalizeTrips"
  /\ result' = normalizeTrips(input)
  /\ UNCHANGED <<input, arg, rest>>

NormalizeTripsApp ==
  /\ call = "none"
  /\ AppInput(input)
  /\ call' = "normalizeTripsApp"
  /\ result' = normalizeTripsApp(input)
  /\ UNCHANGED <<input, arg, rest>>

Next == NormalizeTrips \/ NormalizeTripsApp

Spec == Init /\ [][Next]_vars

(***************************************************************************)
(* Runs of the window evaluator.  The trips start on 2025-10-01 and end on *)
(* its 89th, 90th or 91st day, or lie around those days; the reference     *)
(* days put the trips inside, partly inside, before and after the window.  *)
(***************************************************************************)
MaxWindowTrips == 2

WindowDates ==
  {Str(2025, 10, 1), Str(2025, 12, 28), Str(2025, 12, 29), Str(2025, 12, 30)}

RefDates ==
  {Str(2025, 10, 1), Str(2025, 12, 29), Str(2026, 3, 29), Str(2026, 3, 30),
   Str(2026, 6, 26)}

WindowInit ==
  /\ input \in ListsOver([entry : WindowDates, exit : WindowDates], MaxWindowTrips)
  /\ call = "none"
  /\ arg = null
  /\ result = null
  /\ RestInit

ComputeUsedDays ==
  /\ call = "none"
  /\ \E r \in RefDates :
       /\ arg' = Val(toDayIndex(r))
       /\ result' = computeUsedDays(Val(toDayIndex(r)), input)
  /\ call' = "computeUsedDays"
  /\ UNCHANGED <<input, rest>>

ComputeRemaining ==
  /\ call = "none"
  /\ \E r \in RefDates :
       /\ arg' = Val(toDayIndex(r))
       /\ result' = computeRemaining(Val(toDayIndex(r)), input)
  /\ call' = "computeRemaining"
  /\ UNCHANGED <<input, rest>>

DaysUsedLast180 ==
  /\ call = "none"
  /\ \E r \in RefDates :
       /\ arg' = r
       /\ result' = daysUsedLast180(r, input)
  /\ call' = "daysUsedLast180"
  /\ UNCHANGED <<input, rest>>

RemainingLast180 ==
  /\ call = "none"
  /\ \E r \in RefDates :
       /\ arg' = r
       /\ result' = remainingLast180(r, input)
  /\ call' = "remainingLast180"
  /\ UNCHANGED <<input, rest>>

WindowNext ==
  ComputeUsedDays \/ ComputeRemaining \/ DaysUsedLast180 \/ RemainingLast180

WindowSpec == WindowInit /\ [][WindowNext]_vars

(***************************************************************************)
(* Runs of the stay simulator of app.js.  The recorded trips hold up to 89 *)
(* or 90 days from 2025-10-01; the entry days lie inside a recorded trip,  *)
(* right after one, and late enough for recorded days to leave the window  *)
(* during the stay.                                                        *)
(***************************************************************************)
MaxStayTrips == 2

StayDates == {Str(2025, 10, 1), Str(2025, 12, 28), Str(2025, 12, 29)}

EntryDates ==
  {Str(2025, 10, 1), Str(2025, 12, 28), Str(2025, 12, 29), Str(2026, 3, 1),
   Str(2026, 3, 30)}

StayInit ==
  /\ input \in ListsOver([entry : StayDates, exit : StayDates], MaxStayTrips)
  /\ call = "none"
  /\ arg = null
  /\ result = null
  /\ RestInit

MaxStayDays ==
  /\ call = "none"
  /\ \E e \in EntryDates :
       /\ arg' = e
       /\ result' = maxStayDays(e, input)
  /\ call' = "maxStayDays"
  /\ UNCHANGED <<input, rest>>

LatestExit ==
  /\ call = "none"
  /\ \E e \in EntryDates :
       /\ arg' = e
       /\ result' = latestExit(e, input)
  /\ call' = "latestExit"
  /\ UNCHANGED <<input, rest>>

StayNext == MaxStayDays \/ LatestExit

StaySpec == StayInit /\ [][StayNext]_vars

(***************************************************************************)
(* Runs of the entry scan.  The recorded trips hold 89 or 90 days from     *)
(* 2025-10-01, 90 days from 2025-10-02, one day, or the 27 months from     *)
(* 2025-10-01 to 2027-12-31, inside which no day within 730 days is free.  *)
(***************************************************************************)
MaxScanTrips == 2

ScanPairs ==
  { [entry |-> Str(2025, 10, 1), exit |-> Str(2025, 12, 28)],
    [entry |-> Str(2025, 10, 1), exit |-> Str(2025, 12, 29)],
    [entry |-> Str(2025, 12, 30), exit |-> Str(2025, 10, 2)],
    [entry |-> Str(2026, 3, 29), exit |-> Str(2026, 3, 29)],
    [entry |-> Str(2025, 10, 1), exit |-> Str(2027, 12, 31)] }

StartDates ==
  {Str(2025, 10, 1), Str(2025, 12, 28), Str(2025, 12, 29), Str(2026, 3, 29),
   Str(2026, 3, 30)}

ScanInit ==
  /\ input \in ListsOver(ScanPairs, MaxScanTrips)
  /\ call = "none"
  /\ arg = null
  /\ result = null
  /\ RestInit

GetNextPossibleEntry ==
  /\ call = "none"
  /\ \E s \in StartDates :
       /\ arg' = Val(toDayIndex(s))
       /\ result' = getNextPossibleEntry(Val(toDayIndex(s)), input)
  /\ call' = "getNextPossibleEntry"
  /\ UNCHANGED <<input, rest>>

NextSafeEntryDate ==
  /\ call = "none"
  /\ \E s \in StartDates :
       /\ arg' = s
       /\ result' = nextSafeEntryDate(s, input)
  /\ call' = "nextSafeEntryDate"
  /\ UNCHANGED <<input, rest>>

ScanNext == GetNextPossibleEntry \/ NextSafeEntryDate

ScanSpec == ScanInit /\ [][ScanNext]_vars

(***************************************************************************)
(* The two simulator loops of app.js, one loop test per step.  frame holds *)
(* the locals of the call in progress: pc is "loop" before the loop test,  *)
(* "after" once the loop is left and "returned" after the return; evals    *)
(* counts the window evaluations (calls of daysUsedLast180, directly or    *)
(* through remainingLast180) made so far.  result is null until the call   *)
(* returns.                                                                *)
(***************************************************************************)
MaxLoopTrips == 2

\* for (; days < 366; days++)
StayLoopContinues(days) == days < 366

\* Mutant of ScanLoopContinues: <= in the place of <.
ScanLoopInclusive(i) == i <= 730

\* for (let i = 0; i < 730; i++)
ScanLoopContinues(i) == i < 730

LoopInit ==
  /\ input \in ListsOver(ScanPairs, MaxLoopTrips)
  /\ call = "none"
  /\ arg = null
  /\ result = null
  /\ RestInit

\* maxStayDays, lines 115-116: entry and days are set.
MaxStayDaysCall ==
  /\ call = "none"
  /\ frame.pc = "idle"
  /\ \E e \in StartDates :
       /\ arg' = e
       /\ frame' = [fn |-> "maxStayDays", pc |-> "loop", entry |-> toDay(e),
                    days |-> 0, evals |-> 0]
  /\ call' = "maxStayDays"
  /\ UNCHANGED <<input, result, dom, heap, page>>

\* maxStayDays, lines 117-123: the loop test and, when it passes, the body,
\* which breaks or lets days++ run.
MaxStayDaysLoop ==
  /\ frame.pc = "loop"
  /\ frame.fn = "maxStayDays"
  /\ frame' =
       IF ~StayLoopContinues(frame.days) THEN [frame EXCEPT !.pc = "after"]
       ELSE IF BreaksAt(frame.entry, input, frame.days)
       THEN [frame EXCEPT !.pc = "after", !.evals = @ + 1]
       ELSE [frame EXCEPT !.days = @ + 1, !.evals = @ + 1]
  /\ UNCHANGED <<input, call, arg, result, dom, heap, page>>

\* maxStayDays, line 124.
MaxStayDaysReturn ==
  /\ frame.pc = "after"
  /\ frame.fn = "maxStayDays"
  /\ result' = Some(Max(0, frame.days - 1))
  /\ frame' = [frame EXCEPT !.pc = "returned"]
  /\ UNCHANGED <<input, call, arg, dom, heap, page>>

\* nextSafeEntryDate, lines 133-134: d and i are set.
NextSafeEntryDateCall ==
  /\ call = "none"
  /\ frame.pc = "idle"
  /\ \E s \in StartDates :
       /\ arg' = s
       /\ frame' = [fn |-> "nextSafeEntryDate", pc |-> "loop", d |-> toDay(s),
                    i |-> 0, evals |-> 0]
  /\ call' = "nextSafeEntryDate"
  /\ UNCHANGED <<input, result, dom, heap, page>>

\* nextSafeEntryDate, lines 134-137: the loop test and, when it passes, the
\* body, which returns d or moves d on by a day and lets i++ run.
NextSafeEntryDateLoop ==
  /\ frame.pc = "loop"
  /\ frame.fn = "nextSafeEntryDate"
  /\ IF ~ScanLoopContinues(frame.i)
     THEN /\ frame' = [frame EXCEPT !.pc = "after"]
          /\ UNCHANGED result
     ELSE IF SafeOn(frame.d, input)
     THEN /\ frame' = [frame EXCEPT !.pc = "returned", !.evals = @ + 1]
          /\ result' = Some(frame.d)
     ELSE /\ frame' = [frame EXCEPT !.d = addDaysApp(@, 1), !.i = @ + 1,
                                     !.evals = @ + 1]
          /\ UNCHANGED result
  /\ UNCHANGED <<input, call, arg, dom, heap, page>>

\* nextSafeEntryDate, line 138.
NextSafeEntryDateReturn ==
  /\ frame.pc = "after"
  /\ frame.fn = "nextSafeEntryDate"
  /\ result' = Some(toDay(arg))
  /\ frame' = [frame EXCEPT !.pc = "returned"]
  /\ UNCHANGED <<input, call, arg, dom, heap, page>>

LoopNext ==
  \/ MaxStayDaysCall
  \/ MaxStayDaysLoop
  \/ MaxStayDaysReturn
  \/ NextSafeEntryDateCall
  \/ NextSafeEntryDateLoop
  \/ NextSafeEntryDateReturn

LoopSpec == LoopInit /\ [][LoopNext]_vars

(***************************************************************************)
(* Runs of the status display of app.js.  setStatusStyles is called with   *)
(* every count up to MaxUsed; render is run on lists that use 0, 1, 59,    *)
(* 60, 89, 90 and 91 days on the days it is run.  Both can run again and   *)
(* again on the same page.                                                 *)
(***************************************************************************)
MaxUsed == 92

MaxStatusTrips == 1

StatusPairs ==
  { [entry |-> Str(2025, 10, 1), exit |-> Str(2025, 10, 1)],
    [entry |-> Str(2025, 10, 1), exit |-> Str(2025, 11, 28)],
    [entry |-> Str(2025, 10, 1), exit |-> Str(2025, 11, 29)],
    [entry |-> Str(2025, 10, 1), exit |-> Str(2025, 12, 28)],
    [entry |-> Str(2025, 10, 1), exit |-> Str(2025, 12, 29)],
    [entry |-> Str(2025, 10, 1), exit |-> Str(2025, 12, 30)] }

NowDates == {Str(2025, 12, 30), Str(2026, 3, 29), Str(2026, 6, 30)}

StatusInit ==
  /\ input \in ListsOver(StatusPairs, MaxStatusTrips)
  /\ call = "none"
  /\ arg = null
  /\ result = null
  /\ RestInit

SetStatusStyles ==
  /\ \E used \in 0..MaxUsed :
       /\ arg' = Some(used)
       /\ dom' = setStatusStyles(dom, used)
  /\ call' = "setStatusStyles"
  /\ UNCHANGED <<input, result, frame, heap, page>>

\* render: trips is normalized, then the page is brought up to date for
\* today.  Of the page the status elements are kept.
Render ==
  /\ \E now \in NowDates :
       /\ arg' = Some(now)
       /\ dom' = RenderStatus(dom, normalizeTripsApp(input), now)
  /\ input' = normalizeTripsApp(input)
  /\ call' = "render"
  /\ UNCHANGED <<result, frame, heap, page>>

StatusNext == SetStatusStyles \/ Render

StatusSpec == StatusInit /\ [][StatusNext]_vars

(***************************************************************************)
(* Runs of the engine on a heap.  The caller's list is array 1 and its     *)
(* trips are the objects 1..Len(input); input keeps their values as they   *)
(* were before the first call.  Calls follow one another on the same list, *)
(* as they do inside the simulators.                                       *)
(***************************************************************************)
MaxHeapTrips == 2

HeapInit ==
  /\ input \in ListsOver(RawPairs, MaxHeapTrips)
  /\ call = "none"
  /\ arg = null
  /\ result = null
  /\ dom = DomInit
  /\ frame = [pc |-> "idle"]
  /\ heap = [obj |-> input, arr |-> <<[k \in 1..Len(input) |-> k]>>]
  /\ PageInit

NormalizeTripsOnHeap ==
  /\ heap' = CallerView(normalizeTripsHeap(heap, 1), Len(input))
  /\ result' = Some(Deref(normalizeTripsHeap(heap, 1),
                          Len(normalizeTripsHeap(heap, 1).arr)))
  /\ call' = "normalizeTrips"
  /\ UNCHANGED <<input, arg, dom, frame, page>>

NormalizeTripsAppOnHeap ==
  /\ AppInput(Deref(heap, 1))
  /\ heap' = CallerView(normalizeTripsAppHeap(heap, 1), Len(input))
  /\ result' = Some(Deref(normalizeTripsAppHeap(heap, 1),
                          Len(normalizeTripsAppHeap(heap, 1).arr)))
  /\ call' = "normalizeTripsApp"
  /\ UNCHANGED <<input, arg, dom, frame, page>>

\* computeUsedDays: normalizeTrips(sourceTrips), then reads only.
ComputeUsedDaysOnHeap ==
  /\ \E r \in NormDates :
       result' = Some(computeUsedDays(Val(toDayIndex(r)), Deref(heap, 1)))
  /\ heap' = CallerView(normalizeTripsHeap(heap, 1), Len(input))
  /\ call' = "computeUsedDays"
  /\ UNCHANGED <<input, arg, dom, frame, page>>

\* daysUsedLast180: normalizeTrips(t), then reads only.
DaysUsedLast180OnHeap ==
  /\ AppInput(Deref(heap, 1))
  /\ \E r \in NormDates :
       result' = Some(daysUsedLast180(r, Deref(heap, 1)))
  /\ heap' = CallerView(normalizeTripsAppHeap(heap, 1), Len(input))
  /\ call' = "daysUsedLast180"
  /\ UNCHANGED <<input, arg, dom, frame, page>>

HeapNext ==
  \/ NormalizeTripsOnHeap
  \/ NormalizeTripsAppOnHeap
  \/ ComputeUsedDaysOnHeap
  \/ DaysUsedLast180OnHeap

HeapSpec == HeapInit /\ [][HeapNext]_vars

(***************************************************************************)
(* Runs of the day-index codec.  input is one string: text that matches    *)
(* the pattern or does not, with months 00..13 and days 00..32 in the      *)
(* years 1900 (no leap year), 2000, 2024 (leap years) and 2025.            *)
(* fromDayIndex is run on the index toDayIndex returned and on the index   *)
(* after it.                                                               *)
(***************************************************************************)
CodecYears == {1900, 2000, 2024, 2025}

CodecStrings ==
  [fmt : BOOLEAN, y : CodecYears, mo : 0..13, d : 0..32]

CodecInit ==
  /\ input \in CodecStrings
  /\ call = "none"
  /\ arg = null
  /\ result = null
  /\ RestInit

ToDayIndex ==
  /\ call = "none"
  /\ result' = toDayIndex(input)
  /\ call' = "toDayIndex"
  /\ UNCHANGED <<input, arg, rest>>

FromDayIndex ==
  /\ call = "toDayIndex"
  /\ result # null
  /\ \E n \in {0, 1} :
       /\ arg' = Some(Val(result) + n)
       /\ result' = fromDayIndex(Val(result) + n)
  /\ call' = "fromDayIndex"
  /\ UNCHANGED <<input, rest>>

CodecNext == ToDayIndex \/ FromDayIndex

CodecSpec == CodecInit /\ [][CodecNext]_vars

(***************************************************************************)
(* Properties of the normalizer.                                           *)
(***************************************************************************)
RealPair(t) == IsRealDate(t.entry) /\ IsRealDate(t.exit)

Lo(t) == IF CalLe(t.entry, t.exit) THEN t.entry ELSE t.exit

Hi(t) == IF CalLe(t.entry, t.exit) THEN t.exit ELSE t.entry

\* An IntervalSet of date strings: real days, entry <= exit, ascending by
\* entry, and a free day between neighbours.
IntervalSet(r) ==
  /\ \A k \in 1..Len(r) : RealPair(r[k]) /\ CalLe(r[k].entry, r[k].exit)
  /\ \A k \in 1..(Len(r) - 1) :
       /\ CalLt(r[k].entry, r[k + 1].entry)
       /\ CalLt(NextDay(r[k].exit), r[k + 1].entry)

\* The same of Date objects.
IntervalSetApp(r) ==
  /\ \A k \in 1..Len(r) :
       ~r[k].entry.nan /\ ~r[k].exit.nan /\ r[k].entry.t <= r[k].exit.t
  /\ \A k \in 1..(Len(r) - 1) :
       /\ r[k].entry.t < r[k + 1].entry.t
       /\ r[k + 1].entry.t > r[k].exit.t + 1

RawDays(list) ==
  {u \in Universe : \E k \in 1..Len(list) :
     RealPair(list[k]) /\ CalLe(Lo(list[k]), u) /\ CalLe(u, Hi(list[k]))}

OutDays(r) ==
  {u \in Universe : \E k \in 1..Len(r) : CalLe(r[k].entry, u) /\ CalLe(u, r[k].exit)}

OutDaysApp(r) ==
  {u \in Universe : \E k \in 1..Len(r) :
     DateLe(r[k].entry, toDay(u)) /\ DateLe(toDay(u), r[k].exit)}

\* Two pairs that overlap or touch (no free day between them).
Touching(p, q) ==
  CalLe(Lo(q), NextDay(Hi(p))) /\ CalLe(Lo(p), NextDay(Hi(q)))

Hull(p, q) ==
  [entry |-> IF CalLe(Lo(p), Lo(q)) THEN Lo(p) ELSE Lo(q),
   exit  |-> IF CalLe(Hi(p), Hi(q)) THEN Hi(q) ELSE Hi(p)]

\* C2: the days covered by normalizeTrips(L) are exactly the days of the
\* parseable pairs of L (reversed pairs swapped), no day lost or invented;
\* two overlapping or touching pairs come out as the one interval from the
\* smaller entry to the larger exit.
C2_SameDays ==
  /\ call = "normalizeTrips" =>
       /\ OutDays(result) = RawDays(input)
       /\ \A k \in 1..Len(result) :
            result[k].entry \in Universe /\ result[k].exit \in Universe
       /\ (Len(input) = 2 /\ RealPair(input[1]) /\ RealPair(input[2])
             /\ Touching(input[1], input[2]))
            => result = <<Hull(input[1], input[2])>>
  /\ call = "normalizeTripsApp" =>
       /\ OutDaysApp(result) = RawDays(input)
       /\ \A k \in 1..Len(result) :
            \E u, v \in Universe :
              result[k].entry = toDay(u) /\ result[k].exit = toDay(v)
       /\ (Len(input) = 2 /\ Touching(input[1], input[2]))
            => result = <<[entry |-> toDay(Hull(input[1], input[2]).entry),
                           exit  |-> toDay(Hull(input[1], input[2]).exit)]>>

\* Witness of C2: a pair and a reversed pair that starts the day after it
\* ends (zero-day gap), merged into one interval.
C2_Witness ==
  /\ call = "normalizeTrips"
  /\ Len(input) = 2
  /\ RealPair(input[1]) /\ RealPair(input[2])
  /\ CalLt(input[2].exit, input[2].entry)
  /\ Lo(input[2]) = NextDay(Hi(input[1]))
  /\ Len(result) = 1

Permuted(list, p) == [k \in 1..Len(list) |-> list[p[k]]]

Parseable(list) == SelectSeq(list, RealPair)

\* C5: a pair with an unparseable end is skipped and the rest of the batch
\* is normalized: normalizeTrips(L) is normalizeTrips of L without its
\* unparseable pairs, and the empty list when nothing parses.
C5_SkipsUnparseable ==
  call = "normalizeTrips" =>
    /\ result = normalizeTrips(Parseable(input))
    /\ Parseable(input) = <<>> => result = <<>>
    /\ Parseable(input) # <<>> => Len(result) >= 1

\* Witness of C5: an unparseable pair between two parseable ones, both of
\* which are in the result.
C5_Witness ==
  /\ call = "normalizeTrips"
  /\ Len(input) = 3
  /\ RealPair(input[1]) /\ ~RealPair(input[2]) /\ RealPair(input[3])
  /\ Len(result) = 2

(***************************************************************************)
(* Properties of the window evaluator and of the stay simulator.           *)
(***************************************************************************)
\* The days inside at least one trip of the list (ends as date strings, a
\* reversed pair read as its swapped form), as day numbers.
TripDays(list) ==
  UNION {Val(toDayIndex(Lo(list[k]))) .. Val(toDayIndex(Hi(list[k]))) :
           k \in {j \in 1..Len(list) : RealPair(list[j])}}

InTrip(d, list) == d \in TripDays(list)

\* The number of distinct days of [r - 179, r] inside at least one trip.
DistinctUsed(r, list) == Cardinality(TripDays(list) \cap ((r - 179)..r))

\* C6: usedDays(r, L) is the number of distinct days d, r - 179 <= d <= r,
\* inside at least one trip of L: overlapping raw trips count a day once,
\* trips after r or before r - 179 count 0.
C6_UsedIsDistinctDays ==
  /\ call = "computeUsedDays" => result = DistinctUsed(arg, input)
  /\ call = "daysUsedLast180" => result = DistinctUsed(toDay(arg).t, input)

\* Witness of C6: two raw trips that share days, the window cutting off
\* the first day of one of them.
C6_Witness ==
  /\ call = "computeUsedDays"
  /\ Len(input) = 2
  /\ \E d \in (arg - 179)..arg : InTrip(d, <<input[1]>>) /\ InTrip(d, <<input[2]>>)
  /\ InTrip(arg - 180, input)
  /\ result = 90

\* C7: remainingDays = max(0, 90 - usedDays): the two add up to 90 while
\* usedDays <= 90, remainingDays is 0 from 90 on, and it is never negative.
C7_RemainingIsFlooredDifference ==
  /\ call = "computeRemaining" =>
       /\ result >= 0
       /\ computeUsedDays(arg, input) <= 90 =>
            computeUsedDays(arg, input) + result = 90
       /\ computeUsedDays(arg, input) >= 90 => result = 0
  /\ call = "remainingLast180" =>
       /\ result >= 0
       /\ daysUsedLast180(arg, input) <= 90 =>
            daysUsedLast180(arg, input) + result = 90
       /\ daysUsedLast180(arg, input) >= 90 => result = 0

\* Witness of C7: more than 90 days used, none remaining.
C7_Witness ==
  /\ call = "computeRemaining"
  /\ computeUsedDays(arg, input) > 90
  /\ result = 0

\* The distinct days of [c - 179, c] covered by the days in tripDays
\* together with the stay [entry, c].
DistinctWithStay(entry, c, tripDays) ==
  Cardinality((tripDays \cup (entry..c)) \cap ((c - 179)..c))

\* Every day c of the stay entry..exit keeps the distinct days at most 90.
StayCompliant(entry, exit, tripDays) ==
  \A c \in entry..exit : DistinctWithStay(entry, c, tripDays) <= 90

\* C8: when latestExit returns a date X, on every day c of the stay
\* entry..X the distinct days of [c - 179, c] covered by the recorded trips
\* and the stay [entry, c] are at most 90.
C8_LatestExitCompliant ==
  (call = "latestExit" /\ result # null) =>
    StayCompliant(toDay(arg).t, Val(result).t, TripDays(input))

\* Witness of C8: a recorded trip inside the window of the entry day, and
\* a latest exit after the entry day.
C8_Witness ==
  /\ call = "latestExit"
  /\ result # null
  /\ Val(result).t > toDay(arg).t
  /\ DistinctUsed(toDay(arg).t, input) >= 31

\* What maxStayDays compares with 90 on day c: recorded usage plus the
\* stay [entry, c] inside the window.
UsagePlusStay(entry, c, list) ==
  daysUsedLast180(DateOf(c), list)
    + overlapDaysInclusive(window180(DateOf(c)).start, window180(DateOf(c)).end,
                           DateOf(entry), DateOf(c))

\* C9: latestExit is the latest compliant exit: one more day breaches (on
\* day X + 1 recorded usage plus the stay [entry, X + 1] exceeds 90); with
\* no recorded trips maxStayDays is 90 and latestExit is entry + 89.
C9_LatestExitIsLatest ==
  /\ (call = "latestExit" /\ result # null) =>
       UsagePlusStay(toDay(arg).t, Val(result).t + 1, input) > 90
  /\ (call = "maxStayDays" /\ input = <<>>) => result = 90
  /\ (call = "latestExit" /\ input = <<>>) =>
       result = Some(DateOf(toDay(arg).t + 89))

\* C10: if a one-day stay on the entry day is compliant (usedDays(entry)
\* + 1 <= 90), latestExit returns a date >= entry and not null.
C10_ExitWheneverOneDayFits ==
  (call = "latestExit" /\ daysUsedLast180(arg, input) + 1 <= 90) =>
    /\ result # null
    /\ Val(result).t >= toDay(arg).t

\* C11: latestExit(entryDay, S) is the day entryDay + maxStayDays(entryDay,
\* S) - 1 whenever maxStayDays(entryDay, S) > 0, and it is null, not a date,
\* exactly when maxStayDays(entryDay, S) = 0.
C11_SimulatorConsistency ==
  call = "latestExit" =>
    /\ maxStayDays(arg, input) > 0 =>
         result = Some(DateOf(toDay(arg).t + maxStayDays(arg, input) - 1))
    /\ (result = null) <=> (maxStayDays(arg, input) = 0)

\* Witness of C11: recorded trips, and a latest exit some days after the
\* entry day.
C11_Witness ==
  /\ call = "latestExit"
  /\ input # <<>>
  /\ maxStayDays(arg, input) > 1
  /\ result # null

(***************************************************************************)
(* Properties of the entry scan.                                           *)
(***************************************************************************)
\* Day d is compliant: fewer than 90 distinct days of [d - 179, d] lie in
\* tripDays, so that the remaining allowance on d is positive.
Compliant(d, tripDays) == Cardinality(tripDays \cap ((d - 179)..d)) < 90

\* The first compliant day of start..(start + 729), start - 1 without one.
FirstCompliant(start, tripDays) ==
  IF \E d \in start..(start + 729) : Compliant(d, tripDays)
  THEN CHOOSE d \in start..(start + 729) :
         /\ Compliant(d, tripDays)
         /\ \A e \in start..(d - 1) : ~Compliant(e, tripDays)
  ELSE start - 1

\* The start day and the returned day of the scan call in this state, as
\* day numbers.
ScanStart == IF call = "nextSafeEntryDate" THEN toDay(arg).t ELSE arg

ScanResult == IF call = "nextSafeEntryDate" THEN result.t ELSE result

ScanCalled == call \in {"getNextPossibleEntry", "nextSafeEntryDate"}

\* C12: if some day of [startDay, startDay + 729] has remainingDays > 0,
\* nextSafeEntryDate returns the earliest such day, which is startDay
\* itself when remainingDays(startDay) > 0.
C12_EarliestCompliantDay ==
  (ScanCalled /\ FirstCompliant(ScanStart, TripDays(input)) >= ScanStart) =>
    /\ ScanResult = FirstCompliant(ScanStart, TripDays(input))
    /\ Compliant(ScanStart, TripDays(input)) => ScanResult = ScanStart

\* Witness of C12: no allowance left on the start day, and a later day
\* returned.
C12_Witness ==
  /\ call = "getNextPossibleEntry"
  /\ ~Compliant(arg, TripDays(input))
  /\ result > arg

\* C13: the day nextSafeEntryDate returns is compliant, for every start
\* day and every trip list.
C13_ReturnedDayCompliant ==
  ScanCalled => Compliant(ScanResult, TripDays(input))

\* C14: when no day of [startDay, startDay + 729] has remainingDays > 0,
\* nextSafeEntryDate returns startDay, a plain day like the one it returns
\* for a list that leaves startDay compliant.
C14_ExhaustionReturnsStart ==
  (ScanCalled /\ FirstCompliant(ScanStart, TripDays(input)) < ScanStart) =>
    /\ ScanResult = ScanStart
    /\ call = "getNextPossibleEntry" => result = getNextPossibleEntry(arg, <<>>)
    /\ call = "nextSafeEntryDate" => result = nextSafeEntryDate(arg, <<>>)

\* Witness of C14: the scan of nextSafeEntryDate from a day deep inside a
\* stay of 27 months.
C14_Witness ==
  /\ call = "nextSafeEntryDate"
  /\ FirstCompliant(toDay(arg).t, TripDays(input)) < toDay(arg).t
  /\ result = toDay(arg)

(***************************************************************************)
(* Properties of the simulator loops.                                      *)
(***************************************************************************)
\* The loops, run step by step, return what the functions above return.
StepwiseAgrees ==
  frame.pc = "returned" =>
    /\ frame.fn = "maxStayDays" => result = Some(maxStayDays(arg, input))
    /\ frame.fn = "nextSafeEntryDate" =>
         result = Some(nextSafeEntryDate(arg, input))

\* C15: maxStayDays makes at most 366 window evaluations and
\* nextSafeEntryDate at most 730, one per simulated day; every step taken
\* inside a loop either leaves the loop or uses up one of those
\* evaluations, so that no loop runs on without bound.
C15_SimulatorsTerminate ==
  /\ [](frame.pc # "idle" =>
         /\ frame.fn = "maxStayDays" =>
              frame.evals <= 366 /\ frame.evals <= frame.days + 1
         /\ frame.fn = "nextSafeEntryDate" =>
              frame.evals <= 730 /\ frame.evals <= frame.i + 1)
  /\ [][frame.pc = "loop" =>
          \/ frame'.pc \in {"after", "returned"}
          \/ frame'.pc = "loop" /\ frame'.evals = frame.evals + 1]_vars

\* Witness of C15: nextSafeEntryDate returned after all its 730 days.
C15_Witness ==
  /\ frame.pc = "returned"
  /\ frame.fn = "nextSafeEntryDate"
  /\ frame.evals = 730

(***************************************************************************)
(* Properties of the status display.                                       *)
(***************************************************************************)
\* The days inside the trips of a list of Date pairs, as day numbers.
TripDaysApp(list) ==
  UNION {(list[k].entry.t)..(list[k].exit.t) : k \in 1..Len(list)}

\* The used-days count the page was last styled for: the count handed to
\* setStatusStyles, or the distinct days of the trips in today's window.
ShownUsed ==
  IF call = "render"
  THEN Cardinality(TripDaysApp(input)
                     \cap ((toDay(Val(arg)).t - 179)..(toDay(Val(arg)).t)))
  ELSE Val(arg)

\* The tiers the badge, the ring and the bar show.
BadgeTiers ==
  {x \in {"safe", "warning", "overstay"} : BadgeClass(x) \in dom.statusBadge}

RingTiers ==
  {x \in {"safe", "warning", "overstay"} : StatusClass(x) \in dom.globeRing}

BarTiers ==
  {x \in {"safe", "warning", "overstay"} : StatusClass(x) \in dom.progressBar}

\* C16: every used-days value has exactly one tier, overstay iff used >= 90,
\* warning iff 60 <= used <= 89, safe iff used < 60, and the badge, the
\* ring and the bar all show that one tier.
C16_OneTierEverywhere ==
  call \in {"setStatusStyles", "render"} =>
    /\ BadgeTiers = RingTiers /\ RingTiers = BarTiers
    /\ Cardinality(BadgeTiers) = 1
    /\ "overstay" \in BadgeTiers <=> ShownUsed >= 90
    /\ "warning" \in BadgeTiers <=> (60 <= ShownUsed /\ ShownUsed <= 89)
    /\ "safe" \in BadgeTiers <=> ShownUsed < 60
    /\ dom.statusBadgeText = BadgeText(CHOOSE x \in BadgeTiers : TRUE)

\* Witness of C16: a page that showed another tier before, restyled for 89
\* used days.
C16_Witness ==
  /\ call = "setStatusStyles"
  /\ arg = Some(89)
  /\ dom.nextSafeMessage = [text |-> "Overstay by", n |-> 1]
  /\ BadgeTiers = {"warning"}

\* C17: overstay is shown only when more than 90 days are used, so not
\* for exactly 90, and after render the tier is overstay exactly when the
\* overstay message is shown.
C17_OverstayOnlyAbove90 ==
  /\ call \in {"setStatusStyles", "render"} =>
       ("overstay" \in BadgeTiers => ShownUsed > 90)
  /\ call = "render" =>
       ("overstay" \in BadgeTiers <=> dom.nextSafeMessage.text = "Overstay by")

(***************************************************************************)
(* Properties of the engine on a heap.                                     *)
(***************************************************************************)
\* The normalizers on the heap return the lists the definitions on values
\* return.
HeapAgrees ==
  /\ call = "normalizeTrips" => result = Some(normalizeTrips(input))
  /\ call = "normalizeTripsApp" => result = Some(normalizeTripsApp(input))

\* C18: after any calls of the engine the list passed in has its length
\* and element order and each of its trips its entry and exit, as before
\* the calls.
C18_InputNotMutated ==
  /\ heap.arr = <<[k \in 1..Len(input) |-> k]>>
  /\ heap.obj = input

\* Witness of C18: a call whose merge wrote the exit of the interval it
\* was building.
C18_Witness ==
  /\ call = "normalizeTripsApp"
  /\ Len(input) = 2
  /\ RealPair(input[1]) /\ RealPair(input[2])
  /\ CalLt(Hi(input[1]), Hi(input[2]))
  /\ CalLe(Lo(input[1]), Lo(input[2]))
  /\ Len(Val(result)) = 1

(***************************************************************************)
(* Properties of the day-index codec.                                      *)
(***************************************************************************)
\* C19: toDayIndex returns null for every string that is not a YYYY-MM-DD
\* literal, has a month outside 1..12 or a day outside 1..31, or names a
\* day its month does not have; no neighbouring day's index is returned.
C19_RejectsNeverClamps ==
  (call = "toDayIndex" /\ ~IsRealDate(input)) => result = null

\* Witness of C19: 2025-02-29 rejected.
C19_Witness ==
  /\ call = "toDayIndex"
  /\ input = Str(2025, 2, 29)
  /\ result = null

\* The real days on the 1st and from the 27th of a month, in the years of
\* the codec runs.
MonthEdges ==
  {s \in [fmt : {TRUE}, y : CodecYears, mo : 1..12, d : {1, 27, 28, 29, 30, 31}] :
     IsRealDate(s)}

\* C20: on valid dates toDayIndex keeps the calendar order, the day after
\* a day has the next index (across month ends, year ends and 29
\* February), fromDayIndex(toDayIndex(s)) = s, and every index is the
\* index of the date fromDayIndex gives for it.
C20_CodecOrderPreservingBijection ==
  /\ (call = "toDayIndex" /\ IsRealDate(input)) =>
       /\ result # null
       /\ toDayIndex(NextDay(input)) = Some(Val(result) + 1)
       /\ \A t \in MonthEdges :
            CalLt(input, t) => Val(result) < Val(toDayIndex(t))
  /\ call = "fromDayIndex" =>
       /\ IsRealDate(result)
       /\ toDayIndex(result) = arg
       /\ Val(arg) = Val(toDayIndex(input)) => result = input
       /\ Val(arg) = Val(toDayIndex(input)) + 1 => result = NextDay(input)
  /\ call # "none" =>
       /\ toDayIndex(Str(1970, 1, 1)) = Some(0)
       /\ fromDayIndex(Val(toDayIndex(Str(2026, 2, 19))) - 179) = Str(2025, 8, 24)

\* Witness of C20: the index after that of 2024-02-29 decoded as
\* 2024-03-01.
C20_Witness ==
  /\ call = "fromDayIndex"
  /\ input = Str(2024, 2, 29)
  /\ result = Str(2024, 3, 1)

(***************************************************************************)
(* part_002's page: the trip form, its quick-add presets and the hero.     *)
(* A date input's value is a date string, NotADate when it is empty.       *)
(* editingIndex is null or Some(i), i counted from 0 as in the source; the *)
(* clock's day (Math.floor(Date.now() / DAY_MS)) is passed as today.       *)
(***************************************************************************)
\* An array slot that was never written.
hole == [hole |-> TRUE]

IsHole(x) == "hole" \in DOMAIN x

HasHole(list) == \E k \in 1..Len(list) : IsHole(list[k])

\* list[index] = value on an array: the element replaced, the array grown
\* (with holes below the index) when the index is at or past its length.
SetAt(list, index, value) ==
  [k \in 1..Max(Len(list), index + 1) |->
     IF k = index + 1 THEN value
     ELSE IF k <= Len(list) THEN list[k] ELSE hole]

\* The elements a page shows of part_002: the form's read-outs, the active
\* quick button, and the hero.
Dom2Init ==
  [tripLength |-> null, tripError |-> "", tripWarning |-> "",
   saveTripBtn |-> [disabled |-> FALSE], swapDatesBtn |-> [hide |-> TRUE],
   quickBtn |-> null,
   hero |-> {}, ringNumber |-> null, heroSentence |-> [kind |-> "none"]]

FormTrip(f) == [entry |-> f.entryDate, exit |-> f.exitDate]

\* Both inputs parse and the exit is not before the entry.
OrderedForm(f) ==
  /\ toDayIndex(f.entryDate) # null
  /\ toDayIndex(f.exitDate) # null
  /\ Val(toDayIndex(f.exitDate)) >= Val(toDayIndex(f.entryDate))

\* Lines 139-142 of getDraftTrips: the copy of trips with the form's trip
\* pushed or written at editingIndex.
DraftNext(T, ei, f) ==
  IF ei = null THEN Append(T, FormTrip(f)) ELSE SetAt(T, Val(ei), FormTrip(f))

getDraftTrips(T, ei, f) ==
  IF ~OrderedForm(f) THEN T ELSE normalizeTrips(DraftNext(T, ei, f))

\* normalizeTrips reads t.entry of every slot for...of visits, holes
\* included: a TypeError on a hole.  selectedTripInfo runs it on the draft.
InfoThrows(f, T, ei) == OrderedForm(f) /\ HasHole(DraftNext(T, ei, f))

FormWarning(f, T, ei, today) ==
  IF computeUsedDays(today, getDraftTrips(T, ei, f)) > 90
  THEN "Warning: this trip can exceed the 90-day limit in the current 180-day window."
  ELSE ""

selectedTripInfo(f, T, ei, today) ==
  IF toDayIndex(f.entryDate) = null \/ toDayIndex(f.exitDate) = null
  THEN [ok |-> FALSE, days |-> null, msg |-> "", invalidOrder |-> FALSE,
        warning |-> ""]
  ELSE IF Val(toDayIndex(f.exitDate)) < Val(toDayIndex(f.entryDate))
  THEN [ok |-> FALSE, days |-> null,
        msg |-> "Exit date must be on or after entry date.",
        invalidOrder |-> TRUE, warning |-> ""]
  ELSE [ok |-> TRUE,
        days |-> Some(diffDaysInclusive(Val(toDayIndex(f.entryDate)),
                                        Val(toDayIndex(f.exitDate)))),
        msg |-> "", invalidOrder |-> FALSE,
        warning |-> FormWarning(f, T, ei, today)]

ShowInfo(d, info) ==
  [d EXCEPT !.tripLength = info.days,
            !.tripError = info.msg,
            !.tripWarning = info.warning,
            !.saveTripBtn = [disabled |-> ~info.ok],
            !.swapDatesBtn = [hide |-> ~info.invalidOrder]]

\* syncTripForm(); the page is left as it was when selectedTripInfo throws.
syncTripForm(d, f, T, ei, today) ==
  IF InfoThrows(f, T, ei) THEN d
  ELSE ShowInfo(d, selectedTripInfo(f, T, ei, today))

\* Lines 271-275 of quickSet: the entry the preset starts from.
QuickEntry(f, today) ==
  IF toDayIndex(f.entryDate) = null THEN fromDayIndex(today) ELSE f.entryDate

\* Mutant of QuickEnd: the preset's days added to the entry day.
QuickEndExclusive(startIdx, n) == addDays(startIdx, n)

\* Line 276 of quickSet.
QuickEnd(startIdx, n) == addDays(startIdx, n - 1)

QuickForm(f, n, today) ==
  [entryDate |-> QuickEntry(f, today),
   exitDate |-> fromDayIndex(QuickEnd(Val(toDayIndex(QuickEntry(f, today))), n)),
   userTouchedExit |-> TRUE]

\* The page after quickSet(n, btn) ran on the form it left.
QuickDom(d, f, T, ei, today, n) ==
  IF InfoThrows(f, T, ei) THEN d
  ELSE [syncTripForm(d, f, T, ei, today) EXCEPT !.quickBtn = Some(n)]

\* autoSuggestExitFromEntry() on a form whose entry was just set.
autoSuggestExitFromEntry(f) ==
  IF toDayIndex(f.entryDate) = null THEN f
  ELSE IF ~f.userTouchedExit \/ toDayIndex(f.exitDate) = null
  THEN [f EXCEPT !.exitDate =
          fromDayIndex(addDays(Val(toDayIndex(f.entryDate)), 6))]
  ELSE f

\* swapDates(): the form it leaves (an empty value is falsy).
swapDates(f) ==
  IF ~f.entryDate.fmt \/ ~f.exitDate.fmt THEN f
  ELSE [entryDate |-> f.exitDate, exitDate |-> f.entryDate,
        userTouchedExit |-> TRUE]

(***************************************************************************)
(* Runs of the trip form: the form holds two of a few values, the user     *)
(* changes an input, swaps the dates or presses a quick button; beside     *)
(* them, diffDaysInclusive is called on two day indexes.                   *)
(***************************************************************************)
QuickPresets == {1, 7, 14, 30, 90}

FormValues ==
  {NotADate, Str(2024, 2, 28), Str(2025, 12, 31), Str(2026, 1, 10)}

QuickToday == Val(toDayIndex(Str(2026, 1, 20)))

DiffIndexes == (QuickToday - 2)..(QuickToday + 2)

QuickInit ==
  /\ input = QuickToday
  /\ call = "none"
  /\ arg = null
  /\ result = null
  /\ dom = Dom2Init
  /\ frame = [pc |-> "idle"]
  /\ heap = null
  /\ trips = <<>>
  /\ editingIndex = null
  /\ pendingDeletedTrip = null
  /\ timers = NoTimers
  /\ storage = NoItem
  /\ form \in [entryDate : FormValues, exitDate : FormValues,
               userTouchedExit : {FALSE}]
  /\ env = [script |-> "part_002", zone |-> 0]
  /\ history = NoHistory

FormFixed ==
  UNCHANGED <<input, frame, heap, trips, editingIndex, pendingDeletedTrip,
              timers, storage, env, history>>

QuickSet ==
  /\ \E n \in QuickPresets :
       /\ arg' = Some(n)
       /\ form' = QuickForm(form, n, input)
       /\ dom' = QuickDom(dom, QuickForm(form, n, input), trips,
                          editingIndex, input, n)
  /\ call' = "quickSet"
  /\ result' = null
  /\ FormFixed

\* The change handler of the entry input.
ChangeEntry ==
  /\ \E s \in FormValues :
       /\ arg' = Some(s)
       /\ form' = autoSuggestExitFromEntry([form EXCEPT !.entryDate = s])
  /\ dom' = syncTripForm(dom, form', trips, editingIndex, input)
  /\ call' = "changeEntry"
  /\ result' = null
  /\ FormFixed

\* The change handler of the exit input.
ChangeExit ==
  /\ \E s \in FormValues :
       /\ arg' = Some(s)
       /\ form' = [form EXCEPT !.exitDate = s, !.userTouchedExit = TRUE]
  /\ dom' = syncTripForm(dom, form', trips, editingIndex, input)
  /\ call' = "changeExit"
  /\ result' = null
  /\ FormFixed

\* Runs swap only an exit the user picked, which keeps the entries of a
\* run among the picked values and today.
SwapDates ==
  /\ form.entryDate.fmt /\ form.exitDate \in FormValues \ {NotADate}
  /\ form' = swapDates(form)
  /\ dom' = syncTripForm(dom, form', trips, editingIndex, input)
  /\ call' = "swapDates"
  /\ arg' = null
  /\ result' = null
  /\ FormFixed

DiffDaysInclusive ==
  /\ \E a \in DiffIndexes, b \in DiffIndexes :
       /\ arg' = <<a, b>>
       /\ result' = Some(diffDaysInclusive(a, b))
  /\ call' = "diffDaysInclusive"
  /\ UNCHANGED <<dom, form>>
  /\ FormFixed

QuickNext ==
  QuickSet \/ ChangeEntry \/ ChangeExit \/ SwapDates \/ DiffDaysInclusive

QuickSpec == QuickInit /\ [][QuickNext]_vars

(***************************************************************************)
(* Properties of the inclusive day count and the quick-add presets.       *)
(***************************************************************************)
\* C21: diffDaysInclusive(a, b) is the number of days from a through b,
\* both ends counted (0 when b is before a, 1 for a one-day trip), and a
\* quick-add preset of k >= 1 days leaves exit = entry + k - 1 in the form,
\* a trip whose length, computed and shown, is k.
C21_InclusiveCountAndPresets ==
  /\ call = "diffDaysInclusive" =>
       /\ result = Some(Cardinality(arg[1]..arg[2]))
       /\ arg[1] = arg[2] => result = Some(1)
  /\ call = "quickSet" =>
       /\ toDayIndex(form.entryDate) # null
       /\ toDayIndex(form.exitDate)
            = Some(Val(toDayIndex(form.entryDate)) + Val(arg) - 1)
       /\ diffDaysInclusive(Val(toDayIndex(form.entryDate)),
                            Val(toDayIndex(form.exitDate))) = Val(arg)
       /\ dom.tripLength = arg

\* Witness of C21: the 30-day preset pressed on the entry 2026-01-10 left
\* the exit 2026-02-08 and the length 30.
C21_Witness ==
  /\ call = "quickSet"
  /\ arg = Some(30)
  /\ form.entryDate = Str(2026, 1, 10)
  /\ form.exitDate = Str(2026, 2, 8)
  /\ dom.tripLength = Some(30)

(***************************************************************************)
(* Properties of the accounting inside the stay simulator.                 *)
(***************************************************************************)
\* C24: on every day current = entry + days that the loop of maxStayDays
\* simulates, usedExisting + extra is the number of distinct days of
\* [current - 179, current] covered by the recorded trips and the stay
\* [entry, current] together, also when days of the stay lie inside a
\* recorded trip: no stay day is counted twice.
C24_AccountingCountsDistinctDays ==
  call = "maxStayDays" =>
    \A days \in 0..Min(MaxStayLoop(toDay(arg), input), 365) :
      UsagePlusStay(toDay(arg).t, toDay(arg).t + days, input)
        = DistinctWithStay(toDay(arg).t, toDay(arg).t + days, TripDays(input))

\* C26: the loop of maxStayDays never runs to its cap of 366 iterations:
\* it breaks at a value of days of at most 90 (where the stay alone fills
\* more than 90 days of the window), so the result lies in 0..89 and 365
\* is never returned.
C26_CapNeverExhausted ==
  call = "maxStayDays" =>
    /\ MaxStayLoop(toDay(arg), input) <= 90
    /\ BreaksAt(toDay(arg), input, MaxStayLoop(toDay(arg), input))
    /\ result \in 0..89
    /\ result # 365

\* Witness of C26: with no recorded trip the loop broke at days = 90 and
\* 89 was returned.
C26_Witness ==
  /\ call = "maxStayDays"
  /\ input = <<>>
  /\ MaxStayLoop(toDay(arg), input) = 90
  /\ result = 89

(***************************************************************************)
(* Runs that compare a trip list with the list grown by one more trip:     *)
(* the stay simulator and the two used-days functions are called on a      *)
(* recorded list; the properties call them again on every list that holds  *)
(* one trip more.                                                          *)
(***************************************************************************)
MaxMoreTrips == 1

MorePairs == [entry : StayDates, exit : StayDates]

MoreInit ==
  /\ input \in ListsOver(MorePairs, MaxMoreTrips)
  /\ call = "none"
  /\ arg = null
  /\ result = null
  /\ RestInit

MoreNext == MaxStayDays \/ DaysUsedLast180 \/ ComputeUsedDays

MoreSpec == MoreInit /\ [][MoreNext]_vars

\* The lists that hold one trip more than list, put last or first.
Grown(list) ==
  {Append(list, x) : x \in MorePairs} \cup {<<x>> \o list : x \in MorePairs}

\* C27: recording more travel never enlarges the allowance: for a list S'
\* that is S plus a trip, maxStayDays(entryDay, S') <= maxStayDays(entryDay,
\* S) and usedDays(r, S') >= usedDays(r, S), in both engines.
C27_MoreTravelNeverMoreAllowance ==
  /\ call = "maxStayDays" =>
       \A more \in Grown(input) : maxStayDays(arg, more) <= result
  /\ call = "daysUsedLast180" =>
       \A more \in Grown(input) : daysUsedLast180(arg, more) >= result
  /\ call = "computeUsedDays" =>
       \A more \in Grown(input) : computeUsedDays(arg, more) >= result

\* Witness of C27: a recorded one-day trip, and a longer trip whose
\* addition shortens the stay the simulator allows.
C27_Witness ==
  /\ call = "maxStayDays"
  /\ Len(input) = 1
  /\ result > 0
  /\ \E more \in Grown(input) : maxStayDays(arg, more) < result

(***************************************************************************)
(* part_002's hero: the days left today and the sentence under them.       *)
(***************************************************************************)
getHeroRisk(remaining) ==
  IF remaining = 0 THEN "risk-critical"
  ELSE IF remaining <= 29 THEN "risk-danger"
  ELSE IF remaining <= 74 THEN "risk-warning"
  ELSE "risk-safe"

\* fmtYMD(ymd): the dash for a string that does not parse, else the year,
\* month and day the locale prints for the UTC day of its index.
fmtYMD(ymd) ==
  IF toDayIndex(ymd) = null THEN [dash |-> TRUE, y |-> 0, mo |-> 0, d |-> 0]
  ELSE [dash |-> FALSE,
        y |-> UTCFields(Val(toDayIndex(ymd))).y,
        mo |-> UTCFields(Val(toDayIndex(ymd))).mo,
        d |-> UTCFields(Val(toDayIndex(ymd))).d]

\* Lines 201-203 of setHero.
HeroStayDays(remaining) == IF remaining > 0 THEN remaining ELSE 1

HeroLeaveBy(todayIndex, remaining) ==
  addDays(todayIndex, HeroStayDays(remaining) - 1)

\* Lines 196-205 of setHero: the sentence for the used days of today.
HeroSentence(todayIndex, used, T) ==
  IF used > 90
  THEN [kind |-> "overstay", days |-> used - 90,
        date |-> fmtYMD(fromDayIndex(getNextPossibleEntry(todayIndex, T)))]
  ELSE [kind |-> "leaveBy", days |-> HeroStayDays(Max(0, 90 - used)),
        date |-> fmtYMD(fromDayIndex(HeroLeaveBy(todayIndex, Max(0, 90 - used))))]

HeroFor(d, todayIndex, used, T) ==
  [d EXCEPT !.hero = {getHeroRisk(Max(0, 90 - used))},
            !.ringNumber = Some(Max(0, 90 - used)),
            !.heroSentence = HeroSentence(todayIndex, used, T)]

\* setHero() on the page d, today being the day todayIndex and T the trips.
setHero(d, todayIndex, T) ==
  HeroFor(d, todayIndex, computeUsedDays(todayIndex, T), T)

(***************************************************************************)
(* Runs of the hero: trips of up to 90 days before today, today inside or  *)
(* right after them, and trips recorded for days after today.              *)
(***************************************************************************)
MaxHeroTrips == 2

HeroPairs ==
  {[entry |-> Str(2025, 10, 1), exit |-> Str(2025, 12, 28)],
   [entry |-> Str(2025, 10, 1), exit |-> Str(2025, 12, 29)],
   [entry |-> Str(2025, 10, 2), exit |-> Str(2025, 12, 30)],
   [entry |-> Str(2025, 11, 1), exit |-> Str(2025, 11, 30)],
   [entry |-> Str(2025, 12, 30), exit |-> Str(2025, 12, 30)],
   [entry |-> Str(2026, 1, 5), exit |-> Str(2026, 1, 5)],
   [entry |-> Str(2026, 2, 1), exit |-> Str(2026, 3, 31)],
   [entry |-> Str(2025, 9, 1), exit |-> Str(2025, 12, 31)]}

HeroTodays ==
  {Val(toDayIndex(s)) :
     s \in {Str(2025, 12, 29), Str(2025, 12, 30), Str(2025, 12, 31),
            Str(2026, 3, 30)}}

HeroInit ==
  /\ input \in HeroTodays
  /\ call = "none"
  /\ arg = null
  /\ result = null
  /\ dom = Dom2Init
  /\ frame = [pc |-> "idle"]
  /\ heap = null
  /\ trips \in ListsOver(HeroPairs, MaxHeroTrips)
  /\ editingIndex = null
  /\ pendingDeletedTrip = null
  /\ timers = NoTimers
  /\ storage = NoItem
  /\ form = [entryDate |-> NotADate, exitDate |-> NotADate,
             userTouchedExit |-> FALSE]
  /\ env = [script |-> "part_002", zone |-> 0]
  /\ history = NoHistory

SetHero ==
  /\ call = "none"
  /\ dom' = setHero(dom, input, trips)
  /\ call' = "setHero"
  /\ UNCHANGED <<input, arg, result, frame, heap, page>>

HeroNext == SetHero

HeroSpec == HeroInit /\ [][HeroNext]_vars

(***************************************************************************)
(* Properties of the hero's advice.                                        *)
(***************************************************************************)
\* The index of the day a displayed date names.
ShownDay(date) == Val(toDayIndex(Str(date.y, date.mo, date.d)))

\* C30: whenever setHero displays "If you enter today, you must leave by
\* D", a stay from today through D keeps, on every day c of the stay, the
\* distinct days used in [c - 179, c] by the recorded trips and the stay at
\* most 90, also when 90 days are used today and when trips after today
\* are recorded.
C30_HeroAdviceCompliant ==
  (call = "setHero" /\ dom.heroSentence.kind = "leaveBy") =>
    StayCompliant(input, ShownDay(dom.heroSentence.date), TripDays(trips))

(***************************************************************************)
(* src/app.js: the page.  Trips in memory are pairs of Dates; the stored   *)
(* item is the JSON array of date-string pairs the script wrote, or text   *)
(* that is not such an array.  Of render these runs keep the assignment    *)
(* trips = normalizeTrips(trips) and the rows of the table; the status     *)
(* display is the subject of the runs of render above, and the toast (its  *)
(* text, its undo button and toastTimer) is not followed: a handler runs   *)
(* whenever it is called.  env.zone is 1 in a time zone east of UTC,       *)
(* where local midnight falls on the UTC day before, and 0 elsewhere.      *)
(***************************************************************************)
\* list.splice(index, 1)
RemoveAt(list, index) ==
  IF index >= Len(list) THEN list
  ELSE SubSeq(list, 1, index) \o SubSeq(list, index + 2, Len(list))

\* list.splice(index, 0, value)
InsertAt(list, index, value) ==
  SubSeq(list, 1, index) \o <<value>> \o SubSeq(list, index + 1, Len(list))

\* toISOString() throws a RangeError on an Invalid Date.
ISOThrows(d) == toDay(d).nan

\* toISO(d): the UTC date of the local midnight of d.
toISO(d, zone) == FieldsToString(UTCFields(toDay(d).t - zone))

HasInvalid(list) ==
  \E k \in 1..Len(list) : list[k].entry.nan \/ list[k].exit.nan

\* saveTrips throws when normalizeTrips meets a slot without a trip (a
\* TypeError reading its entry) or toISO meets an Invalid Date.
SaveThrows(nextTrips) ==
  HasHole(nextTrips) \/ HasInvalid(normalizeTripsApp(nextTrips))

\* Line 84 of saveTrips, stringified.
StoredItem(normalized, zone) ==
  [kind |-> "array",
   items |-> [k \in 1..Len(normalized) |->
                [entry |-> toISO(normalized[k].entry, zone),
                 exit  |-> toISO(normalized[k].exit, zone)]]]

\* The item after saveTrips(nextTrips): left as it was when saveTrips
\* throws.
saveTrips(store, nextTrips, zone) ==
  IF SaveThrows(nextTrips) THEN store
  ELSE StoredItem(normalizeTripsApp(nextTrips), zone)

\* loadTrips(): [] without the item and when JSON.parse or normalizeTrips
\* throws on it.
loadTrips(store) ==
  IF store.kind = "array" THEN normalizeTripsApp(store.items) ELSE <<>>

\* The elements of the page these runs follow, as the HTML has them.
UiDomInit ==
  [statusBadge |-> {}, statusBadgeText |-> "", globeRing |-> {},
   progressBar |-> {}, nextSafeMessage |-> [text |-> ""],
   nextSafeBlock |-> {}, nextSafeStatusLine |-> "", nextSafe |-> null,
   tripsTbody |-> 0, selectedDays |-> null,
   addTripBtn |-> [text |-> "Add trip", disabled |-> FALSE],
   error |-> "", swapDatesBtn |-> [hide |-> TRUE],
   cancelEditBtn |-> [hide |-> TRUE]]

\* An empty input value is falsy.
selectedTripDays(f) ==
  IF ~f.entryDate.fmt \/ ~f.exitDate.fmt
  THEN [ok |-> FALSE, days |-> null, msg |-> "Select both dates.",
        invalidOrder |-> FALSE]
  ELSE IF DateLt(toDay(f.exitDate), toDay(f.entryDate))
  THEN [ok |-> FALSE, days |-> null,
        msg |-> "Exit date must be on or after entry date.",
        invalidOrder |-> TRUE]
  ELSE [ok |-> TRUE,
        days |-> Some(daysInclusive(toDay(f.entryDate), toDay(f.exitDate))),
        msg |-> "", invalidOrder |-> FALSE]

ShowSelected(d, info) ==
  [d EXCEPT !.selectedDays = info.days,
            !.addTripBtn.disabled = ~info.ok,
            !.error = IF info.ok THEN "" ELSE info.msg,
            !.swapDatesBtn = [hide |-> ~info.invalidOrder]]

syncSelectedUI(d, f) == ShowSelected(d, selectedTripDays(f))

\* The rows render() writes into the table, one per trip.
RenderRows(d, T) == [d EXCEPT !.tripsTbody = Len(T)]

\* The page after setEditMode ran to its end.
EditDom(d, f) ==
  syncSelectedUI([d EXCEPT !.addTripBtn.text = "Save changes",
                           !.cancelEditBtn = [hide |-> FALSE]], f)

\* The page after clearEditMode().
ClearedDom(d, f) ==
  syncSelectedUI([d EXCEPT !.addTripBtn.text = "Add trip",
                           !.cancelEditBtn = [hide |-> TRUE]], f)

\* Lines 397-404 of upsertTripFromForm: trips after the push or the
\* assignment at editingIndex.
Upserted(T, ei, f) ==
  IF ei = null THEN Append(T, clampTrip(FormTrip(f)))
  ELSE SetAt(T, Val(ei), clampTrip(FormTrip(f)))

\* trips[index] read where the array has nothing: undefined.
TripAt(T, index) == IF index < Len(T) THEN T[index + 1] ELSE hole

\* Line 428 of undoDelete.
Restored(T, pending) ==
  InsertAt(T, Min(pending.index, Len(T)), pending.trip)

(***************************************************************************)
(* A file handed to importTripsFromFile: text that is not JSON, JSON that  *)
(* is not an array, or an array of items.  An item is null or an object    *)
(* whose entry and exit are strings or something else.                     *)
(***************************************************************************)
NoString == [number |-> 0]

NullItem == [nothing |-> TRUE]

IsString(v) == "fmt" \in DOMAIN v

IsNullItem(item) == "entry" \notin DOMAIN item

\* Line 461.
BadItem(item) ==
  IsNullItem(item) \/ ~IsString(item.entry) \/ ~IsString(item.exit)

\* Mutant of Rejected: the exit of an item is not looked at.
RejectedOnEntry(file) ==
  \/ file.kind # "array"
  \/ \E k \in 1..Len(file.items) :
       IsNullItem(file.items[k]) \/ ~IsString(file.items[k].entry)

\* Lines 458-462: JSON.parse or one of the two checks throws.
Rejected(file) ==
  \/ file.kind # "array"
  \/ \E k \in 1..Len(file.items) : BadItem(file.items[k])

\* dateStrOrDate + "T00:00:00" on a value that is no string: text that is
\* no date.
AsText(v) == IF IsString(v) THEN v ELSE NotADate

ParsedTrips(items) ==
  [k \in 1..Len(items) |->
     [entry |-> AsText(items[k].entry), exit |-> AsText(items[k].exit)]]

\* Line 465: trips = normalizeTrips(parsed).
Imported(file) == normalizeTripsApp(ParsedTrips(file.items))

ImportFailed == Some("Import failed")

(***************************************************************************)
(* Runs of the page of app.js.  The stored item is absent, broken, or an   *)
(* array this script wrote; the page loads, and then the user edits the    *)
(* form, adds or saves a trip, starts and cancels an edit, deletes, undoes,*)
(* imports a file, resets, reloads, and the two timers fire.  input is     *)
(* the day of the clock.  A run ends where a date would fall more than     *)
(* MaxDrift days before the first day the user can pick, and a trip is     *)
(* added only to fewer than MaxUiTrips trips.                              *)
(***************************************************************************)
MaxUiTrips == 2

MaxDrift == 1

UiDates == {Str(2026, 1, 10), Str(2026, 1, 12)}

\* What the user picks in the form: a one-day stay on either date.
UiForms ==
  {[entryDate |-> s, exitDate |-> s] : s \in UiDates}

UiToday == Val(toDayIndex(Str(2026, 1, 12)))

UiFloor == Val(toDayIndex(Str(2026, 1, 10))) - MaxDrift

Pair(a, b) == [entry |-> a, exit |-> b]

UiStored ==
  {NoItem,
   [kind |-> "garbage", items |-> <<>>],
   [kind |-> "array",
    items |-> <<Pair(Str(2026, 1, 10), Str(2026, 1, 10)),
                Pair(Str(2026, 1, 12), Str(2026, 1, 12))>>]}

ImportFiles ==
  {[kind |-> "garbage", items |-> <<>>],
   [kind |-> "object", items |-> <<>>],
   [kind |-> "array",
    items |-> <<Pair(Str(2026, 1, 12), Str(2026, 1, 12)),
                Pair(Str(2026, 1, 10), Str(2026, 1, 10))>>],
   [kind |-> "array",
    items |-> <<Pair(Str(2026, 1, 10), Str(2026, 1, 10)),
                Pair(Str(2026, 1, 12), NoString)>>],
   [kind |-> "array",
    items |-> <<Pair(Str(2026, 1, 10), Str(2026, 1, 10)), NullItem>>],
   [kind |-> "array",
    items |-> <<Pair(Str(2026, 1, 12), Str(2026, 1, 12)),
                Pair(NotADate, NotADate)>>]}

UiInit ==
  /\ input = UiToday
  /\ call = "none"
  /\ arg = null
  /\ result = null
  /\ dom = UiDomInit
  /\ frame = [pc |-> "idle"]
  /\ heap = null
  /\ trips = <<>>
  /\ editingIndex = null
  /\ pendingDeletedTrip = null
  /\ timers = NoTimers
  /\ storage \in UiStored
  /\ form = [entryDate |-> NotADate, exitDate |-> NotADate]
  /\ env \in [script : {"app.js"}, zone : {0, 1}]
  /\ history = NoHistory

UiFixed == UNCHANGED <<input, frame, heap, env>>

\* Whether no date of the page lies before UiFloor.
DayInRange(s) == toDayIndex(s) = null \/ Val(toDayIndex(s)) >= UiFloor

DateInRange(d) == d.nan \/ d.t >= UiFloor

InRange(T, store, f) ==
  /\ \A k \in 1..Len(T) :
       IsHole(T[k]) \/ (DateInRange(T[k].entry) /\ DateInRange(T[k].exit))
  /\ \A k \in 1..Len(store.items) :
       DayInRange(store.items[k].entry) /\ DayInRange(store.items[k].exit)
  /\ DayInRange(f.entryDate) /\ DayInRange(f.exitDate)

\* The DOMContentLoaded handler: loadTrips, today in the form, render.
LoadApp ==
  /\ env.script = "app.js"
  /\ trips' = normalizeTripsApp(loadTrips(storage))
  /\ editingIndex' = null
  /\ pendingDeletedTrip' = null
  /\ timers' = NoTimers
  /\ form' = [entryDate |-> toISO(DateOf(input), env.zone),
              exitDate |-> toISO(DateOf(input), env.zone)]
  /\ dom' = RenderRows(syncSelectedUI(UiDomInit, form'), trips')
  /\ history' = NoHistory
  /\ call' = "load"
  /\ arg' = null
  /\ result' = null
  /\ UNCHANGED storage
  /\ UiFixed

AppLoaded == env.script = "app.js" /\ call # "none"

\* A run is followed past a handler that an exception ended only through a
\* reload, a reset or an import: the other handlers start from a list
\* that saveTrips can store.
Storable == AppLoaded /\ ~SaveThrows(trips)

\* The change handlers of the two date inputs, once the user has picked
\* both dates of a stay.
ChangeFormApp ==
  /\ Storable
  /\ \E f \in UiForms : form' = f
  /\ dom' = syncSelectedUI(dom, form')
  /\ call' = "change"
  /\ arg' = null
  /\ result' = null
  /\ UNCHANGED <<trips, editingIndex, pendingDeletedTrip, timers, storage, history>>
  /\ UiFixed

\* upsertTripFromForm, clicked on the enabled button.  When saveTrips
\* throws the handler ends there: trips holds the new trip, nothing is
\* stored or rendered and the edit mode stays.
UpsertTripFromForm ==
  /\ Storable
  /\ ~dom.addTripBtn.disabled
  /\ editingIndex = null => Len(trips) < MaxUiTrips
  /\ IF ~selectedTripDays(form).ok
     THEN /\ dom' = syncSelectedUI(dom, form)
          /\ UNCHANGED <<trips, editingIndex, timers, storage, history>>
     ELSE IF SaveThrows(Upserted(trips, editingIndex, form))
     THEN /\ trips' = Upserted(trips, editingIndex, form)
          /\ history' = [history EXCEPT !.deleted = null]
          /\ UNCHANGED <<editingIndex, storage, dom, timers>>
     ELSE /\ trips' = normalizeTripsApp(Upserted(trips, editingIndex, form))
          /\ storage' = saveTrips(storage, Upserted(trips, editingIndex, form),
                                  env.zone)
          /\ editingIndex' = null
          /\ dom' = ClearedDom(RenderRows(dom, trips'), form)
          /\ history' = NoHistory
          /\ UNCHANGED timers
  /\ call' = "upsertTripFromForm"
  /\ arg' = null
  /\ result' = null
  /\ UNCHANGED <<pendingDeletedTrip, form>>
  /\ UiFixed

\* setEditMode(index), from a click on a row.  Reading trips[index].entry
\* throws where the array has no trip, toISO throws on an Invalid Date.
SetEditModeApp ==
  /\ Storable
  /\ \E index \in 0..(dom.tripsTbody - 1) :
       /\ editingIndex' = Some(index)
       /\ IF IsHole(TripAt(trips, index))
          THEN /\ UNCHANGED <<form, dom>>
               /\ history' = [history EXCEPT !.loaded = null]
          ELSE IF ISOThrows(TripAt(trips, index).entry)
          THEN /\ UNCHANGED <<form, dom>>
               /\ history' = [history EXCEPT !.loaded = null]
          ELSE IF ISOThrows(TripAt(trips, index).exit)
          THEN /\ form' = [form EXCEPT !.entryDate =
                             toISO(TripAt(trips, index).entry, env.zone)]
               /\ UNCHANGED dom
               /\ history' = [history EXCEPT !.loaded = null]
          ELSE /\ form' = [entryDate |->
                             toISO(TripAt(trips, index).entry, env.zone),
                           exitDate |->
                             toISO(TripAt(trips, index).exit, env.zone)]
               /\ dom' = EditDom(dom, form')
               /\ history' =
                    [history EXCEPT !.loaded = Some(TripAt(trips, index))]
  /\ call' = "setEditMode"
  /\ arg' = null
  /\ result' = null
  /\ UNCHANGED <<trips, pendingDeletedTrip, timers, storage>>
  /\ UiFixed

\* clearEditMode(), the cancel button.
ClearEditModeApp ==
  /\ Storable
  /\ editingIndex' = null
  /\ dom' = ClearedDom(dom, form)
  /\ history' = [history EXCEPT !.loaded = null]
  /\ call' = "clearEditMode"
  /\ arg' = null
  /\ result' = null
  /\ UNCHANGED <<trips, pendingDeletedTrip, timers, storage, form>>
  /\ UiFixed

\* deleteTrip(index), from a click on a row.
DeleteTripApp ==
  /\ Storable
  /\ \E index \in 0..(dom.tripsTbody - 1) :
       /\ pendingDeletedTrip' =
            Some([trip |-> TripAt(trips, index), index |-> index])
       /\ history' = [history EXCEPT !.deleted =
                        Some([trips |-> trips, storage |-> storage])]
       /\ IF SaveThrows(RemoveAt(trips, index))
          THEN /\ trips' = RemoveAt(trips, index)
               /\ UNCHANGED <<storage, dom, timers>>
          ELSE /\ trips' = normalizeTripsApp(RemoveAt(trips, index))
               /\ storage' = saveTrips(storage, RemoveAt(trips, index), env.zone)
               /\ dom' = RenderRows(dom, trips')
               /\ timers' = [undoTimer |-> TRUE]
  /\ call' = "deleteTrip"
  /\ arg' = null
  /\ result' = null
  /\ UNCHANGED <<editingIndex, form>>
  /\ UiFixed

\* undoDelete(), the toast's button.
UndoDeleteApp ==
  /\ Storable
  /\ IF pendingDeletedTrip = null
     THEN UNCHANGED <<trips, pendingDeletedTrip, timers, storage, dom, history>>
     ELSE /\ pendingDeletedTrip' = null
          /\ history' = [history EXCEPT !.deleted = null]
          /\ IF SaveThrows(Restored(trips, Val(pendingDeletedTrip)))
             THEN /\ trips' = Restored(trips, Val(pendingDeletedTrip))
                  /\ timers' = [undoTimer |-> FALSE]
                  /\ UNCHANGED <<storage, dom>>
             ELSE /\ trips' = normalizeTripsApp(
                                Restored(trips, Val(pendingDeletedTrip)))
                  /\ storage' = saveTrips(storage,
                                          Restored(trips, Val(pendingDeletedTrip)),
                                          env.zone)
                  /\ dom' = RenderRows(dom, trips')
                  /\ timers' = [undoTimer |-> FALSE]
  /\ call' = "undoDelete"
  /\ arg' = null
  /\ result' = null
  /\ UNCHANGED <<editingIndex, form>>
  /\ UiFixed

\* The callback of undoTimer, 5 seconds after the last deleteTrip.
UndoTimerFires ==
  /\ Storable
  /\ timers.undoTimer
  /\ pendingDeletedTrip' = null
  /\ timers' = [undoTimer |-> FALSE]
  /\ history' = [history EXCEPT !.deleted = null]
  /\ call' = "undoTimer"
  /\ arg' = null
  /\ result' = null
  /\ UNCHANGED <<trips, editingIndex, storage, form, dom>>
  /\ UiFixed

\* reader.onload of importTripsFromFile: the file as read, and the user's
\* answer where the handler asks.  Everything thrown ends in the alert.
ImportTripsFromFile ==
  /\ AppLoaded
  /\ \E file \in ImportFiles, confirmed \in BOOLEAN :
       /\ arg' = file
       /\ IF Rejected(file)
          THEN /\ result' = ImportFailed
               /\ UNCHANGED <<trips, editingIndex, timers, storage, dom,
                              history>>
          ELSE IF Len(trips) > 0 /\ ~confirmed
          THEN /\ result' = null
               /\ UNCHANGED <<trips, editingIndex, timers, storage, dom,
                              history>>
          ELSE IF SaveThrows(Imported(file))
          THEN /\ result' = ImportFailed
               /\ trips' = Imported(file)
               /\ history' = [history EXCEPT !.deleted = null]
               /\ UNCHANGED <<editingIndex, timers, storage, dom>>
          ELSE /\ result' = null
               /\ trips' = normalizeTripsApp(Imported(file))
               /\ storage' = saveTrips(storage, Imported(file), env.zone)
               /\ editingIndex' = null
               /\ dom' = ClearedDom(RenderRows(dom, trips'), form)
               /\ history' = NoHistory
               /\ UNCHANGED timers
  /\ call' = "importTripsFromFile"
  /\ UNCHANGED <<pendingDeletedTrip, form>>
  /\ UiFixed

\* The click handler of the reset button, and the user's answer.
ResetTrips ==
  /\ AppLoaded
  /\ \E confirmed \in BOOLEAN :
       /\ IF ~confirmed
          THEN UNCHANGED <<trips, editingIndex, timers, storage, dom, history>>
          ELSE /\ trips' = <<>>
               /\ storage' = saveTrips(storage, <<>>, env.zone)
               /\ editingIndex' = null
               /\ dom' = RenderRows(ClearedDom(dom, form), <<>>)
               /\ history' = NoHistory
               /\ UNCHANGED timers
  /\ call' = "reset"
  /\ arg' = null
  /\ result' = null
  /\ UNCHANGED <<pendingDeletedTrip, form>>
  /\ UiFixed

Bounded == InRange(trips', storage', form')

UiNext ==
  \/ LoadApp /\ Bounded
  \/ ChangeFormApp /\ Bounded
  \/ UpsertTripFromForm /\ Bounded
  \/ SetEditModeApp /\ Bounded
  \/ ClearEditModeApp /\ Bounded
  \/ DeleteTripApp /\ Bounded
  \/ UndoDeleteApp /\ Bounded
  \/ UndoTimerFires /\ Bounded
  \/ ImportTripsFromFile /\ Bounded
  \/ ResetTrips /\ Bounded

UiSpec == UiInit /\ [][UiNext]_vars

\* C22: an import of a file that is not a JSON array, or in which one item
\* has no string entry or no string exit, imports nothing: trips and the
\* stored item are what they were before the import.
C22_MalformedImportChangesNothing ==
  [][\A file \in ImportFiles :
       ( /\ call' = "importTripsFromFile"
         /\ arg' = file
         /\ \/ file.kind # "array"
            \/ \E k \in 1..Len(file.items) : BadItem(file.items[k]) )
       => (trips' = trips /\ storage' = storage)]_vars

\* A file with a good item and a bad one was turned away from a page that
\* holds trips.
C22_Witness ==
  /\ call = "importTripsFromFile"
  /\ arg.kind = "array"
  /\ Len(arg.items) = 2
  /\ ~BadItem(arg.items[1])
  /\ BadItem(arg.items[2])
  /\ result = ImportFailed
  /\ Len(trips) > 0
  /\ storage.kind = "array"

\* C29: an import that ends in the alert "Import failed" leaves trips and
\* the stored item as they were, also when the file is an array of string
\* pairs that are no dates.
C29_FailedImportChangesNothing ==
  [][(call' = "importTripsFromFile" /\ result' = ImportFailed)
       => (trips' = trips /\ storage' = storage)]_vars

\* C23: undoDelete called while the trip of the last deleteTrip is pending,
\* with no other change of the trips since that deleteTrip, puts trips and
\* the stored item back to what they were before it; undoDelete called
\* with nothing pending (the undo timer has fired) changes neither.
C23_UndoRestoresDeletedTrip ==
  [][call' = "undoDelete" =>
       IF pendingDeletedTrip = null
       THEN trips' = trips /\ storage' = storage
       ELSE history.deleted # null =>
              /\ trips' = Val(history.deleted).trips
              /\ storage' = Val(history.deleted).storage]_vars

\* C25: after every handler of the page, trips is a normalized list: every
\* trip has two dates with entry <= exit, the trips are in order, and at
\* least one free day lies between a trip and the next.
C25_TripsAlwaysNormalized ==
  call # "none" =>
    /\ \A k \in 1..Len(trips) :
         /\ ~IsHole(trips[k])
         /\ ~trips[k].entry.nan /\ ~trips[k].exit.nan
         /\ trips[k].entry.t <= trips[k].exit.t
    /\ \A k \in 1..(Len(trips) - 1) :
         trips[k].exit.t + 1 < trips[k + 1].entry.t

\* C28: a non-null editingIndex is an index of trips, and the trip there
\* is the one whose dates setEditMode loaded into the form.
C28_EditingIndexKeepsItsTrip ==
  (call # "none" /\ editingIndex # null) =>
    /\ Val(editingIndex) < Len(trips)
    /\ history.loaded # null =>
         trips[Val(editingIndex) + 1] = Val(history.loaded)

====
